---- MODULE Spec2Model ----
(***************************************************************************)
(* Filtering and cleaning phase (src/src/limpeza.py) of the mHealth        *)
(* research pipeline, driven by the orchestrator (pipeline_principal.py).  *)
(*                                                                         *)
(* A CSV cell is a sequence of characters; a character is a one-symbol     *)
(* string, accented letters are written with their accent after the letter *)
(* ("a'" is a-acute, "a~" a-tilde, "c," c-cedilla).  pandas reads an empty *)
(* cell as NaN, written NaN below.                                         *)
(***************************************************************************)
EXTENDS Integers, Sequences, FiniteSets, TLC

\* ---------------------------------------------------------------- text

\* pandas' missing value for a text cell (read_csv of an empty cell)
NaN == <<"NaN">>

\* numeric NaN / NaT, the result of a coerced parse that failed
Nulo == -1

\* str.lower() on the letters that occur in the inputs
Minusculas ==
    ("A" :> "a") @@ ("B" :> "b") @@ ("C" :> "c") @@ ("D" :> "d") @@ ("E" :> "e") @@
    ("F" :> "f") @@ ("G" :> "g") @@ ("H" :> "h") @@ ("I" :> "i") @@ ("J" :> "j") @@
    ("K" :> "k") @@ ("L" :> "l") @@ ("M" :> "m") @@ ("N" :> "n") @@ ("O" :> "o") @@
    ("P" :> "p") @@ ("Q" :> "q") @@ ("R" :> "r") @@ ("S" :> "s") @@ ("T" :> "t") @@
    ("U" :> "u") @@ ("V" :> "v") @@ ("W" :> "w") @@ ("X" :> "x") @@ ("Y" :> "y") @@
    ("Z" :> "z") @@ ("A'" :> "a'") @@ ("A~" :> "a~") @@ ("E'" :> "e'") @@
    ("I'" :> "i'") @@ ("O'" :> "o'") @@ ("U'" :> "u'") @@ ("C," :> "c,")

lower(s) ==
    [i \in 1..Len(s) |-> IF s[i] \in DOMAIN Minusculas THEN Minusculas[s[i]] ELSE s[i]]

\* Python's  k in t  for two strings
Substring(k, t) ==
    \E i \in 0..(Len(t) - Len(k)) : \A j \in 1..Len(k) : t[i + j] = k[j]

\* ------------------------------------------------------- configuration

CATEGORIAS_ALVO == {"MEDICAL", "HEALTH_AND_FITNESS"}

MIN_INSTALACOES == 1000

MESES_OBSOLESCENCIA == 24

KEYWORDS_INCLUSAO ==
    << <<"p","r","o","n","t","u","a'","r","i","o">>,
       <<"p","r","o","n","t","u","a","r","i","o">>,
       <<"e","h","r">>,
       <<"e","l","e","c","t","r","o","n","i","c"," ","h","e","a","l","t","h">>,
       <<"m","e","d","i","c","a","l"," ","r","e","c","o","r","d">>,
       <<"r","e","g","i","s","t","r","o"," ","e","l","e","t","r","o^","n","i","c","o">>,
       <<"r","e","g","i","s","t","r","o"," ","e","l","e","t","r","o","n","i","c","o">>,
       <<"s","u","s">>,
       <<"d","a","t","a","s","u","s">>,
       <<"e","-","s","u","s">>,
       <<"e","s","u","s">>,
       <<"c","o","n","e","c","t","e"," ","s","u","s">>,
       <<"c","o","n","e","c","t"," ","s","u","s">>,
       <<"m","e","u"," ","s","u","s"," ","d","i","g","i","t","a","l">>,
       <<"s","i","s","a","b">>,
       <<"s","i","g","t","a","p">>,
       <<"m","i","n","i","s","t","e'","r","i","o"," ","d","a"," ","s","a","u'","d","e">>,
       <<"m","i","n","i","s","t","e","r","i","o"," ","d","a"," ","s","a","u","d","e">>,
       <<"s","e","c","r","e","t","a","r","i","a"," ","d","e"," ","s","a","u'","d","e">>,
       <<"s","e","c","r","e","t","a","r","i","a"," ","d","e"," ","s","a","u","d","e">>,
       <<"i","n","t","e","r","o","p","e","r","a","b">>,
       <<"h","l","7">>,
       <<"f","h","i","r">>,
       <<"a","p","i"," ","s","a","u'","d","e">>,
       <<"a","p","i"," ","s","a","u","d","e">>,
       <<"i","n","t","e","g","r","a","c,","a~","o">>,
       <<"i","n","t","e","g","r","a","c","a","o">>,
       <<"s","i","n","c","r","o","n","i","z">>,
       <<"s","i","n","c","r","o","n","i","z","a">>,
       <<"c","o","n","e","c","t","i","v","i","d","a","d","e">>,
       <<"p","a","d","r","a~","o"," ","a","b","e","r","t","o">>,
       <<"p","a","d","r","a","o"," ","a","b","e","r","t","o">>,
       <<"o","p","e","n","e","h","r">>,
       <<"d","i","c","o","m">>,
       <<"s","i","s","t","e","m","a"," ","d","e"," ","i","n","f","o","r","m","a","c,","a~","o">>,
       <<"s","i","s","t","e","m","a"," ","d","e"," ","i","n","f","o","r","m","a","c","a","o">>,
       <<"i","n","f","o","r","m","a","t","i","o","n"," ","s","y","s","t","e","m">>,
       <<"c","n","e","s">>,
       <<"s","i","n","a","n">>,
       <<"s","i","n","a","s","c">>,
       <<"s","i","m"," ">>,
       <<"s","i","v","e","p">>,
       <<"s","i","p","n","i">>,
       <<"s","i","s","v","a","n">>,
       <<"s","i","a","b">>,
       <<"g","e","s","t","a~","o"," ","h","o","s","p","i","t","a","l","a","r">>,
       <<"g","e","s","t","a","o"," ","h","o","s","p","i","t","a","l","a","r">>,
       <<"g","e","s","t","a~","o"," ","c","l","i'","n","i","c","a">>,
       <<"g","e","s","t","a","o"," ","c","l","i","n","i","c","a">>,
       <<"m","h","e","a","l","t","h">>,
       <<"m","-","h","e","a","l","t","h">>,
       <<"s","a","u'","d","e"," ","d","i","g","i","t","a","l">>,
       <<"s","a","u","d","e"," ","d","i","g","i","t","a","l">>,
       <<"t","e","l","e","m","e","d","i","c","i","n","a">>,
       <<"t","e","l","e","c","o","n","s","u","l","t","a">>,
       <<"t","e","l","e","s","s","a","u'","d","e">>,
       <<"t","e","l","e","s","s","a","u","d","e">>,
       <<"u","b","s">>,
       <<"a","t","e","n","c,","a~","o"," ","b","a'","s","i","c","a">>,
       <<"a","t","e","n","c","a","o"," ","b","a","s","i","c","a">>,
       <<"v","i","g","i","l","a^","n","c","i","a">>,
       <<"v","i","g","i","l","a","n","c","i","a">>,
       <<"e","p","i","d","e","m","i","o","l","o'","g">>,
       <<"v","a","c","i","n","a","c,","a~","o">>,
       <<"v","a","c","i","n","a","c","a","o">>,
       <<"i","m","u","n","i","z","a","c,","a~","o">>,
       <<"i","m","u","n","i","z","a","c","a","o">>,
       <<"s","a","m","u">>,
       <<"c","a","p","s">>,
       <<"f","a","r","m","a'","c","i","a"," ","p","o","p","u","l","a","r">>,
       <<"f","a","r","m","a","c","i","a"," ","p","o","p","u","l","a","r">>,
       <<"a","g","e","n","t","e"," ","c","o","m","u","n","i","t","a'","r","i","o">>,
       <<"a","g","e","n","t","e"," ","c","o","m","u","n","i","t","a","r","i","o">>,
       <<"e","s","t","r","a","t","e'","g","i","a"," ","s","a","u'","d","e"," ","f","a","m","i'","l","i","a">>,
       <<"s","a","u'","d","e"," ","p","u'","b","l","i","c","a">>,
       <<"s","a","u","d","e"," ","p","u","b","l","i","c","a">>,
       <<"p","u","b","l","i","c"," ","h","e","a","l","t","h">>,
       <<"h","o","s","p","i","t","a","l">>,
       <<"c","l","i'","n","i","c">>,
       <<"c","l","i","n","i","c">>,
       <<"l","a","b","o","r","a","t">>,
       <<"d","i","a","g","n","o'","s","t","i","c","o">>,
       <<"d","i","a","g","n","o","s","t","i","c","o">>,
       <<"p","r","e","s","c","r","i","c,","a~","o">>,
       <<"p","r","e","s","c","r","i","c","a","o">>,
       <<"r","e","c","e","i","t","a"," ","m","e'","d","i","c","a">>,
       <<"h","e","m","o","g","r","a","m","a">>,
       <<"e","x","a","m","e">>,
       <<"l","a","u","d","o">>,
       <<"e","n","f","e","r","m","a","g","e","m">> >>

KEYWORDS_EXCLUSAO_TITULO ==
    << <<"a","c","a","d","e","m","i","a">>,
       <<"g","y","m">>,
       <<"w","o","r","k","o","u","t">>,
       <<"f","i","t","n","e","s","s"," ","t","r","a","c","k","e","r">>,
       <<"d","i","e","t","a">>,
       <<"e","m","a","g","r","e","c","e","r">>,
       <<"p","e","r","d","e","r"," ","p","e","s","o">>,
       <<"c","a","l","o","r","i","a">>,
       <<"y","o","g","a">>,
       <<"m","e","d","i","t","a","c,","a~","o">>,
       <<"m","e","d","i","t","a","c","a","o">>,
       <<"m","i","n","d","f","u","l","n","e","s","s">>,
       <<"c","o","r","r","i","d","a">>,
       <<"r","u","n","n","i","n","g">>,
       <<"s","t","e","p"," ","c","o","u","n","t","e","r">>,
       <<"p","e","d","o^","m","e","t","r","o">>,
       <<"m","u","s","c","u","l","a","c,","a~","o">>,
       <<"m","u","s","c","u","l","a","c","a","o">>,
       <<"t","r","e","i","n","o">>,
       <<"r","e","c","e","i","t","a"," ","c","u","l","i","n","a'","r","i","a">>,
       <<"r","e","c","e","i","t","a"," ","c","u","l","i","n","a","r","i","a">>,
       <<"p","e","r","s","o","n","a","l"," ","t","r","a","i","n","e","r">>,
       <<"b","o","d","y","b","u","i","l","d","i","n","g">>,
       <<"s","l","e","e","p"," ","t","r","a","c","k","e","r">>,
       <<"c","i","c","l","o"," ","m","e","n","s","t","r","u","a","l">> >>

\* the two lists local to executar_limpeza that _classificar_dev reads
_KEYWORDS_GOVERNO ==
    << <<"m","i","n","i","s","t","e'","r","i","o">>,
       <<"m","i","n","i","s","t","e","r","i","o">>,
       <<"s","e","c","r","e","t","a","r","i","a">>,
       <<"g","o","v","e","r","n","o">>,
       <<"p","r","e","f","e","i","t","u","r","a">>,
       <<"m","u","n","i","c","i","p","a","l">>,
       <<"e","s","t","a","d","u","a","l">>,
       <<"f","e","d","e","r","a","l">>,
       <<"d","a","t","a","s","u","s">>,
       <<"s","u","s">>,
       <<"f","i","o","c","r","u","z">>,
       <<"a","n","v","i","s","a">>,
       <<"a","n","s">> >>

_KEYWORDS_INST ==
    << <<"u","n","i","v","e","r","s","i","d","a","d","e">>,
       <<"u","n","i","v","e","r","s","i","t","y">>,
       <<"u","s","p">>,
       <<"u","n","i","c","a","m","p">>,
       <<"u","f","m","g">>,
       <<"i","n","s","t","i","t","u","t","o">>,
       <<"f","u","n","d","a","c,","a~","o">>,
       <<"f","u","n","d","a","c","a","o">>,
       <<"h","o","s","p","i","t","a","l">>,
       <<"a","s","s","o","c","i","a","c,","a~","o">>,
       <<"c","r","m">>,
       <<"c","f","m">>,
       <<"c","f","n">>,
       <<"c","o","r","e","n">>,
       <<"c","f","p">>,
       <<"u","n","i","m","e","d">>,
       <<"e","i","n","s","t","e","i","n">> >>

\* the wall clock of the first invocation, in epoch seconds
Relogio0 == 1762214400

SegundosPorDia == 86400

\* the wall clock when this invocation imported src/config.py
VARIABLE agora

\* DATA_REFERENCIA = datetime.now(), evaluated at that import
DATA_REFERENCIA == agora

\* DATA_REFERENCIA - timedelta(days=MESES_OBSOLESCENCIA * 30)
DATA_CORTE_ATUALIZACAO ==
    DATA_REFERENCIA - MESES_OBSOLESCENCIA * 30 * SegundosPorDia

\* ------------------------------------------------------------- parsing

Digitos ==
    ("0" :> 0) @@ ("1" :> 1) @@ ("2" :> 2) @@ ("3" :> 3) @@ ("4" :> 4) @@
    ("5" :> 5) @@ ("6" :> 6) @@ ("7" :> 7) @@ ("8" :> 8) @@ ("9" :> 9)

RECURSIVE ValorDigitos(_)
ValorDigitos(s) ==
    IF s = <<>> THEN 0
    ELSE 10 * ValorDigitos(SubSeq(s, 1, Len(s) - 1)) + Digitos[s[Len(s)]]

\* a cell that reads as a non-negative whole number
EhNumero(c) ==
    /\ c # NaN
    /\ Len(c) > 0
    /\ \A i \in 1..Len(c) : c[i] \in DOMAIN Digitos

\* pd.to_numeric(cell, errors="coerce"): the number, or NaN (Nulo)
to_numeric(c) == IF EhNumero(c) THEN ValorDigitos(c) ELSE Nulo

\* pd.to_datetime(cell, unit="s", errors="coerce"): epoch seconds, or NaT
to_datetime_s(c) == IF EhNumero(c) THEN ValorDigitos(c) ELSE Nulo

\* pd.to_datetime(cell, errors="coerce") of a textual date.  Textual dates
\* are written here as the day number since the epoch; any other text
\* does not parse and gives NaT.
to_datetime_texto(c) ==
    IF EhNumero(c) THEN ValorDigitos(c) * SegundosPorDia ELSE Nulo

\* ---------------------------------------------------------- the stages

\* _contem without the two lower() calls
_contem_semLower(texto, keywords) ==
    /\ texto # NaN
    /\ \E n \in 1..Len(keywords) : Substring(keywords[n], texto)

\* _contem(texto, keywords)
_contem(texto, keywords) ==
    /\ texto # NaN
    /\ LET t == lower(texto)
       IN  \E n \in 1..Len(keywords) : Substring(lower(keywords[n]), t)

\* Series.fillna("")
fillna_str(c) == IF c = NaN THEN <<>> ELSE c

\* df["title"].fillna("") + " " + df["summary"].fillna("") + " " +
\* df["description"].fillna("")
_texto(r) ==
    fillna_str(r.title) \o <<" ">> \o fillna_str(r.summary) \o <<" ">>
        \o fillna_str(r.description)

\* mask_inc & ~mask_exc, per row
Relevante(r) ==
    /\ _contem(_texto(r), KEYWORDS_INCLUSAO)
    /\ ~_contem(r.title, KEYWORDS_EXCLUSAO_TITULO)

\* drop_duplicates that drops nothing
drop_duplicates_nenhuma(s) == s

\* drop_duplicates with keep="last"
RECURSIVE drop_duplicates_ultima(_)
drop_duplicates_ultima(s) ==
    IF s = <<>> THEN <<>>
    ELSE LET depois == drop_duplicates_ultima(Tail(s))
         IN  IF \E i \in 1..Len(depois) : depois[i].appId = Head(s).appId
             THEN depois
             ELSE <<Head(s)>> \o depois

\* df.drop_duplicates(subset=["appId"], keep="first")
RECURSIVE drop_duplicates(_)
drop_duplicates(s) ==
    IF s = <<>> THEN <<>>
    ELSE LET antes == drop_duplicates(SubSeq(s, 1, Len(s) - 1))
             u == s[Len(s)]
         IN  IF \E i \in 1..Len(antes) : antes[i].appId = u.appId
             THEN antes
             ELSE Append(antes, u)

\* df["genreId"].isin(CATEGORIAS_ALVO), per row
CategoriaAlvo(r) == r.genreId \in CATEGORIAS_ALVO

\* df.get("realInstalls", df.get("minInstalls", 0)): the column the install
\* count is read from, chosen for the whole table; "" when the table has
\* neither column and the expression is the scalar 0
ColunaInstalacoes(cols) ==
    IF "realInstalls" \in cols THEN "realInstalls"
    ELSE IF "minInstalls" \in cols THEN "minInstalls"
    ELSE ""

\* pd.to_numeric(<column>, errors="coerce").fillna(0), per row
instalacoes_num(cols, r) ==
    LET n == to_numeric(r[ColunaInstalacoes(cols)])
    IN  IF n = Nulo THEN 0 ELSE n

\* updated_dt without the fallback to lastUpdatedOn
updated_dt_semFallback(cols, r) == to_datetime_s(r.updated)

\* updated_dt: to_datetime(updated, unit="s"), and where that is NaT and
\* the table has a lastUpdatedOn column, to_datetime(lastUpdatedOn)
updated_dt(cols, r) ==
    LET p == to_datetime_s(r.updated)
    IN  IF p = Nulo /\ "lastUpdatedOn" \in cols
        THEN to_datetime_texto(r.lastUpdatedOn)
        ELSE p

\* df["updated_dt"] >= DATA_CORTE_ATUALIZACAO, per row (NaT compares False)
Atualizado(r) ==
    r.updated_dt # Nulo /\ r.updated_dt >= DATA_CORTE_ATUALIZACAO

\* _classificar_dev with the two tests in the other order
_classificar_dev_instPrimeiro(dev) ==
    IF dev = NaN THEN "Comercial"
    ELSE LET d == lower(dev)
         IN  IF \E n \in 1..Len(_KEYWORDS_INST) :
                    Substring(_KEYWORDS_INST[n], d)
             THEN "Institucional"
             ELSE IF \E n \in 1..Len(_KEYWORDS_GOVERNO) :
                    Substring(_KEYWORDS_GOVERNO[n], d)
             THEN "Governamental"
             ELSE "Comercial"

\* _classificar_dev(dev)
_classificar_dev(dev) ==
    IF dev = NaN THEN "Comercial"
    ELSE LET d == lower(dev)
         IN  IF \E n \in 1..Len(_KEYWORDS_GOVERNO) :
                    Substring(_KEYWORDS_GOVERNO[n], d)
             THEN "Governamental"
             ELSE IF \E n \in 1..Len(_KEYWORDS_INST) :
                    Substring(_KEYWORDS_INST[n], d)
             THEN "Institucional"
             ELSE "Comercial"

\* the orderings df.sort_values("instalacoes_num", ascending=False) may
\* return: the sort is not stable, rows with equal counts come in any order
Permutacoes(s) ==
    { [i \in 1..Len(s) |-> s[f[i]]] :
        f \in { g \in [1..Len(s) -> 1..Len(s)] :
                  \A i, j \in 1..Len(s) : i # j => g[i] # g[j] } }

\* sort_values with ascending=True
sort_values_crescente(s) ==
    { p \in Permutacoes(s) :
        \A i \in 1..(Len(p) - 1) : p[i].instalacoes_num <= p[i + 1].instalacoes_num }

\* df.sort_values("instalacoes_num", ascending=False): quicksort, which
\* may leave equal keys in any order
sort_values(s) ==
    { p \in Permutacoes(s) :
        \A i \in 1..(Len(p) - 1) : p[i].instalacoes_num >= p[i + 1].instalacoes_num }

\* ------------------------------------------------------------- inputs

\* most records a raw apps file holds
MaxApps == 2

\* a raw app record as _extrair_app writes it (the columns limpeza reads)
AppBase ==
    [ appId |-> "a", genreId |-> "MEDICAL",
      realInstalls |-> <<"5","0","0","0">>, minInstalls |-> <<"1","0","0","0">>,
      updated |-> <<"1","7","6","2","0","0","0","0","0","0">>, lastUpdatedOn |-> NaN,
      title |-> <<"e","-","S","U","S">>, summary |-> NaN, description |-> NaN,
      developer |-> <<"G","o","v","e","r","n","o"," ","S","P">> ]

\* passes every filter exactly at the install and update thresholds
AppLimite ==
    [AppBase EXCEPT !.appId = "b", !.genreId = "HEALTH_AND_FITNESS",
                    !.realInstalls = <<"1","0","0","0">>, !.updated = <<"1","7","0","0","0","0","6","4","0","0">>,
                    !.title = <<"C","l","i","n","i","c","a">>, !.summary = <<"e","x","a","m","e">>,
                    !.developer = <<"U","S","P">>]

\* a second record of app "a", in a category outside the allow-set
AppDuplicado ==
    [AppBase EXCEPT !.genreId = "GAME", !.realInstalls = <<"9","0","0","0">>,
                    !.title = <<"S","U","S">>, !.developer = NaN]

\* real installs 0 (the default _extrair_app writes), declared minimum 5000
AppRealZero ==
    [AppBase EXCEPT !.appId = "b", !.realInstalls = <<"0">>,
                    !.minInstalls = <<"5","0","0","0">>, !.title = <<"L","a","u","d","o">>,
                    !.developer = <<"A","c","m","e">>]

\* real installs unreadable, declared minimum 5000
AppRealIlegivel ==
    [AppBase EXCEPT !.appId = "c", !.realInstalls = <<"m","i","l">>,
                    !.minInstalls = <<"5","0","0","0">>, !.developer = <<"H","o","s","p","i","t","a","l"," ","S","U","S">>]

\* real installs just under the threshold, declared minimum above it
AppPoucasInstalacoes ==
    [AppBase EXCEPT !.appId = "c", !.realInstalls = <<"9","9","9">>,
                    !.minInstalls = <<"5","0","0","0">>]

\* no primary update field, a recent textual date
AppDataTextual ==
    [AppBase EXCEPT !.appId = "c", !.updated = NaN,
                    !.lastUpdatedOn = <<"2","0","0","0","0">>, !.developer = <<"A","c","m","e">>]

\* neither update field parses
AppSemData ==
    [AppBase EXCEPT !.updated = <<"x">>, !.lastUpdatedOn = <<"o","n","t","e","m">>]

\* primary update field one second before the cutoff, a recent textual date
AppObsoleto ==
    [AppBase EXCEPT !.appId = "b", !.updated = <<"1","7","0","0","0","0","6","3","9","9">>,
                    !.lastUpdatedOn = <<"2","0","0","0","0">>]

\* an inclusion keyword and an exclusion keyword in the name
AppExcluido ==
    [AppBase EXCEPT !.appId = "c", !.title = <<"Y","o","g","a"," ","S","U","S">>]

\* no inclusion keyword anywhere
AppIrrelevante ==
    [AppBase EXCEPT !.title = <<"J","o","g","o">>, !.summary = <<"x">>]

\* the name ends with the letters of the keyword "sim ", without its space
AppSim ==
    [AppBase EXCEPT !.appId = "b", !.title = <<"A","g","e","n","d","a"," ","S","I","M">>,
                    !.developer = <<"A","c","m","e">>]

\* no name, the inclusion keyword is in the description only
AppSemNome ==
    [AppBase EXCEPT !.appId = "c", !.title = NaN,
                    !.description = <<"E","x","a","m","e">>, !.developer = <<"U","S","P">>]

Apps ==
    { AppBase, AppLimite, AppDuplicado, AppRealZero, AppRealIlegivel,
      AppPoucasInstalacoes, AppDataTextual, AppSemData, AppObsoleto,
      AppExcluido, AppIrrelevante, AppSim, AppSemNome }

\* the optional columns of a raw apps file
ColunasOpcionais == {"realInstalls", "minInstalls", "lastUpdatedOn"}

SeqAte(S, n) == UNION { [1..k -> S] : k \in 0..n }

\* a file that is not there, an empty file (to_csv of a table without columns;
\* read_csv raises EmptyDataError on it), and a CSV with a header and rows
NoFile == [kind |-> "none"]
Blank == [kind |-> "blank"]
Tabela(cols, rows) == [kind |-> "csv", cols |-> cols, rows |-> rows]

\* pd.DataFrame()
DataFrameVazio == [cols |-> {}, rows |-> <<>>]

\* raw apps files with every column
ArquivosApps == { Tabela(ColunasOpcionais, s) : s \in SeqAte(Apps, MaxApps) }

\* read_csv gives no value for a column the file does not have
SemColunas(r, cols) ==
    [f \in DOMAIN r |-> IF f \in ColunasOpcionais \ cols THEN NaN ELSE r[f]]

\* raw apps files that lack optional columns
ArquivosAppsSemColuna ==
    { Tabela(c, [i \in 1..Len(s) |-> SemColunas(s[i], c)]) :
        c \in { {"minInstalls", "lastUpdatedOn"}, {"realInstalls", "minInstalls"},
                {"lastUpdatedOn"} },
        s \in SeqAte({AppBase, AppRealZero, AppDataTextual}, MaxApps) }

\* raw reviews: two of app "a", one of "b", one of "c", one of an app "z"
\* that no apps file holds
Reviews ==
    << [appId |-> "a", reviewId |-> 1], [appId |-> "b", reviewId |-> 2],
       [appId |-> "z", reviewId |-> 3], [appId |-> "c", reviewId |-> 4],
       [appId |-> "a", reviewId |-> 5] >>

ArquivosReviews == { NoFile, Tabela({"appId"}, <<>>), Tabela({"appId"}, Reviews) }

\* what executar_coleta may leave behind: nothing collected (two empty
\* files), apps without reviews, apps with reviews
ResultadosColeta ==
    { [apps |-> Blank, reviews |-> Blank],
      [apps |-> Tabela(ColunasOpcionais, <<AppBase>>), reviews |-> Blank],
      [apps |-> Tabela(ColunasOpcionais, <<AppLimite, AppBase>>),
       reviews |-> Tabela({"appId"}, Reviews)] }

\* the phases in the order main tests them
Ordem == <<"1", "2.5", "3", "3.5", "4a", "4b", "5", "6">>

Todas == {"1", "2.5", "3", "3.5", "4a", "4b", "5", "6"}

\* the text of a tuple of symbols
RECURSIVE Texto(_)
Texto(t) == IF t = <<>> THEN "" ELSE Head(t) \o Texto(Tail(t))

\* the phase set without f.lower()
fases_de_semLower(a) ==
    IF a = <<>> THEN Todas
    ELSE { Texto(a[i]) : i \in 1..Len(a) }

\* fases = set(f.lower() for f in args.fase) if args.fase else {all eight};
\* a is args.fase, <<>> when --fase is omitted (None) or has no value ([])
fases_de(a) ==
    IF a = <<>> THEN Todas
    ELSE { Texto(lower(a[i])) : i \in 1..Len(a) }

\* --fase arguments tried when the raw files vary little
ArgsOpcoes ==
    { <<>>,
      <<<<"3">>>>,
      <<<<"3">>, <<"2",".","5">>>>,
      <<<<"4","A">>, <<"1">>, <<"3">>>>,
      <<<<"3",".","5">>, <<"3">>, <<"4","b">>, <<"4","A">>>>,
      <<<<"6">>, <<"5">>, <<"3">>>>,
      <<<<"4","B">>, <<"4","a">>>>,
      <<<<"2",".","5">>, <<"3">>, <<"3",".","5">>, <<"4","a">>, <<"4","b">>, <<"5">>, <<"6">>>>,
      <<<<"3">>, <<"3">>, <<"2">>>> }

\* ---------------------------------------------------------------- state

VARIABLES
    args_fase,        \* main: args.fase, the values after --fase
    fases,            \* main: the selected phases
    pc,               \* main: the phase it is at, "fim" or "erro"
    executadas,       \* main: the phases it has called, in order
    excecao,          \* the exception that ended main, "" when none
    rawApps,          \* newest dados/brutos/apps_brutos_*.csv
    rawReviews,       \* newest dados/reviews/reviews_brutos_*.csv
    cleanApps,        \* newest dados/limpos/apps_limpos_*.csv
    cleanReviews,     \* newest dados/limpos/reviews_limpos_*.csv
    relatorio,        \* dados/limpos/relatorio_limpeza.txt
    escritas,         \* the files this invocation has written, in order
    pcL,              \* executar_limpeza: the statement it is at
    df,               \* executar_limpeza: the app table
    df_r,             \* executar_limpeza: the review table
    total_bruto,      \* executar_limpeza: len(df) as loaded
    total_rev_bruto,  \* executar_limpeza: len(df_r) as loaded
    etapas,           \* executar_limpeza: the audit trail
    log,              \* what executar_limpeza has logged
    dev,              \* _classificar_dev: its argument
    tipo,             \* _classificar_dev: the value it returned, "" before
    txt,              \* _sentimento, _classificar_eixo: the argument
    pol,              \* _sentimento: what TextBlob(txt).sentiment.polarity gave
    sent,             \* _sentimento: the pair it returned, <<>> before
    eixos,            \* _classificar_eixo: the list it returned, <<>> before
    anterior,         \* what the previous invocation's cleaning run left
    pcQ,              \* executar_analise_qualitativa: the statement it is at
    entradaQ,         \* the reviews file the qualitative phase reads
    dfQ,              \* executar_analise_qualitativa: the review table
    temas,            \* executar_analise_qualitativa: the label list of each row
    tab_sent,         \* resultados/tabelas/sentimentos.csv
    tab_t,            \* resultados/tabelas/distribuicao_tematica.csv
    cross,            \* resultados/tabelas/sentimento_por_tema.csv
    anotados          \* resultados/tabelas/reviews_anotados.csv

VARIABLES
    modo,             \* selecionar_descritores: its argument
    descritores,      \* selecionar_descritores: the list being edited
    DESCRITORES,      \* src.config.DESCRITORES, the list object of the process
    pcD,              \* selecionar_descritores: the statement it is at
    lidas,            \* selecionar_descritores: the input lines read so far
    excecaoD,         \* the exception that left selecionar_descritores, or ""
    texto_limpo       \* _limpar on its own: what it returned, Pendente before

VARIABLES
    modoS,            \* executar_selecao: its argument modo
    appsSel,          \* dados/limpos/apps_selecionados.csv
    reviewsSel,       \* dados/limpos/reviews_selecionados.csv
    pcS,              \* executar_selecao: the statement it is at
    df_apps,          \* executar_selecao: the cleaned apps it loaded
    df_rev,           \* executar_selecao: the cleaned reviews it loaded
    indices_sel,      \* executar_selecao: the positions chosen
    excecaoS,         \* the exception that left executar_selecao, or ""
    selecoes,         \* the calls of executar_selecao so far
    lidasS,           \* executar_selecao: the input lines read in this call
    dfA,              \* phase 4A: the app table _carregar returned
    dfB               \* phase 4B: the review table it read

vMain == <<fases, pc, executadas, excecao>>
vArq == <<rawApps, rawReviews, cleanApps, cleanReviews, relatorio, escritas>>
vLimp == <<pcL, df, df_r, total_bruto, total_rev_bruto, etapas, log>>
vDev == <<dev, tipo>>
vPuras == <<txt, pol, sent, eixos>>
vQual == <<pcQ, entradaQ, dfQ, temas, tab_sent, tab_t, cross, anotados>>
vRel == <<agora, anterior>>
vDesc == <<modo, descritores, DESCRITORES, pcD, lidas, excecaoD>>
vArgs == <<args_fase>>
vLimpar == <<texto_limpo>>
vSel == <<modoS, appsSel, reviewsSel, pcS, df_apps, df_rev, indices_sel, excecaoS,
          selecoes, lidasS, dfA, dfB>>
vInter == <<vDesc, vArgs, vLimpar, vSel>>
vars == <<vMain, vArq, vLimp, vDev, vPuras, vQual, vRel, vInter>>

\* no invocation before this one
Nenhuma == [pcL |-> "inativo"]

InitResto ==
    /\ pc = "1"
    /\ executadas = <<>>
    /\ excecao = ""
    /\ cleanApps = NoFile
    /\ cleanReviews = NoFile
    /\ relatorio = NoFile
    /\ escritas = <<>>
    /\ pcL = "inativo"
    /\ df = DataFrameVazio
    /\ df_r = DataFrameVazio
    /\ total_bruto = 0
    /\ total_rev_bruto = 0
    /\ etapas = <<>>
    /\ log = <<>>
    /\ agora = Relogio0
    /\ anterior = Nenhuma

\* DESCRITORES_PADRAO of src/config.py: the first three of its descriptors
DESCRITORES_PADRAO ==
    << <<"p","r","o","n","t","u","a'","r","i","o"," ","e","l","e","t","r","o^","n","i","c","o"," ","s","a","u'","d","e">>,
       <<"s","i","s","t","e","m","a"," ","i","n","f","o","r","m","a","c,","a~","o"," ","s","a","u'","d","e">>,
       <<"e","l","e","c","t","r","o","n","i","c"," ","h","e","a","l","t","h"," ","r","e","c","o","r","d">> >>

\* selecionar_descritores not running; DESCRITORES = list(DESCRITORES_PADRAO)
InitSemDesc ==
    /\ modo = "padrao"
    /\ descritores = <<>>
    /\ DESCRITORES = DESCRITORES_PADRAO
    /\ pcD = "inativo"
    /\ lidas = 0
    /\ excecaoD = ""

\* no value returned yet
Pendente == <<"?">>

\* the table of a phase that has not loaded its input yet
NaoLido == [erro |-> "?"]

\* executar_selecao not running, no selection saved, phases 4A and 4B not run
InitSemSel ==
    /\ modoS = "interativo"
    /\ appsSel = NoFile
    /\ reviewsSel = NoFile
    /\ pcS = "inativo"
    /\ df_apps = DataFrameVazio
    /\ df_rev = DataFrameVazio
    /\ indices_sel = {}
    /\ excecaoS = ""
    /\ selecoes = 0
    /\ lidasS = 0
    /\ dfA = NaoLido
    /\ dfB = NaoLido

\* no interactive function running, no call of _limpar on its own
InitSemInter ==
    /\ InitSemDesc
    /\ texto_limpo = Pendente
    /\ InitSemSel

\* no call of _classificar_dev on its own
InitSemDev ==
    /\ dev = NaN
    /\ tipo = ""

\* executar_analise_qualitativa not running
InitSemQual ==
    /\ pcQ = "inativo"
    /\ entradaQ = NoFile
    /\ dfQ = <<>>
    /\ temas = <<>>
    /\ tab_sent = NoFile
    /\ tab_t = NoFile
    /\ cross = NoFile
    /\ anotados = NoFile

\* no call of _sentimento or _classificar_eixo on its own
InitSemPuras ==
    /\ txt = <<>>
    /\ pol = 0
    /\ sent = <<>>
    /\ eixos = <<>>

\* python pipeline_principal.py --fase 3, over every raw input
InitLimpeza ==
    /\ args_fase = << <<"3">> >>
    /\ fases = fases_de(args_fase)
    /\ rawApps \in ArquivosApps \cup ArquivosAppsSemColuna
    /\ rawReviews \in ArquivosReviews
    /\ InitResto
    /\ InitSemInter
    /\ InitSemDev
    /\ InitSemPuras
    /\ InitSemQual

\* the other --fase arguments, over missing, empty and good raw files
InitPipeline ==
    /\ args_fase \in ArgsOpcoes
    /\ fases = fases_de(args_fase)
    /\ rawApps \in {NoFile, Blank, Tabela(ColunasOpcionais, <<AppBase, AppLimite>>)}
    /\ rawReviews \in {NoFile, Blank, Tabela({"appId"}, Reviews)}
    /\ InitResto
    /\ InitSemInter
    /\ InitSemDev
    /\ InitSemPuras
    /\ InitSemQual

Init == InitLimpeza \/ InitPipeline

\* ----------------------------------------------------------------- main

Proxima(f) ==
    IF f = "6" THEN "fim"
    ELSE Ordem[(CHOOSE i \in 1..Len(Ordem) : Ordem[i] = f) + 1]

\* an exception that main catches and steps over
Levantar_continua(nome) ==
    /\ pc' = Proxima(pc)
    /\ excecao' = nome

\* an uncaught exception ends main
Levantar(nome) ==
    /\ pc' = "erro"
    /\ excecao' = nome

\* if "<f>" in fases:  is false
Pular ==
    /\ pc \in Todas
    /\ pc \notin fases
    /\ pc' = Proxima(pc)
    /\ UNCHANGED <<vInter, vRel, vDev, vPuras, vQual, fases, executadas, excecao, vArq, vLimp>>

\* phase 1-2: executar_coleta writes the raw files it collected
Coleta ==
    /\ pc = "1"
    /\ "1" \in fases
    /\ \E res \in ResultadosColeta :
          /\ rawApps' = res.apps
          /\ rawReviews' = res.reviews
    /\ escritas' = escritas \o <<"metadados_sessao", "apps_brutos", "reviews_brutos">>
    /\ executadas' = Append(executadas, "1")
    /\ pc' = "2.5"
    /\ UNCHANGED <<vInter, vRel, vDev, vPuras, vQual, fases, excecao, cleanApps, cleanReviews, relatorio, vLimp>>

\* what a phase needs in order to return: the files whose absence makes its
\* loader raise FileNotFoundError
TemEntrada(f) ==
    CASE f = "2.5" -> "1" \in fases \/ rawApps.kind = "csv"
      [] f = "3.5" -> cleanApps.kind = "csv"
      [] f = "4a"  -> cleanApps.kind = "csv"
      [] OTHER     -> TRUE

\* phases 2.5, 3.5, 4A, 4B, 5 and 6 as main sees them: the call returns
\* and main goes on, or it raises and main ends
ChamarFase ==
    /\ pc \in {"2.5", "3.5", "4a", "4b", "5", "6"}
    /\ pc \in fases
    /\ executadas' = Append(executadas, pc)
    /\ \/ /\ TemEntrada(pc)
          /\ pc' = Proxima(pc)
          /\ UNCHANGED excecao
       \/ Levantar("Exception")
    /\ UNCHANGED <<vInter, vRel, vDev, vPuras, vQual, fases, vArq, vLimp>>

\* phase 3: main calls executar_limpeza
IniciarLimpeza ==
    /\ pc = "3"
    /\ "3" \in fases
    /\ pcL = "inativo"
    /\ pcL' = "carregar"
    /\ executadas' = Append(executadas, "3")
    /\ UNCHANGED <<vInter, vRel, vDev, vPuras, vQual, fases, pc, excecao, vArq, df, df_r, total_bruto,
                   total_rev_bruto, etapas, log>>

\* ------------------------------------------------------ executar_limpeza

\* _carregar_brutos(): the tables it returns, or the exception it raises
_carregar_brutos ==
    IF rawApps.kind = "none" THEN [erro |-> "FileNotFoundError"]
    ELSE IF rawApps.kind = "blank" \/ rawReviews.kind = "blank"
    THEN [erro |-> "EmptyDataError"]
    ELSE [ erro |-> "",
           df_a |-> [cols |-> rawApps.cols, rows |-> rawApps.rows],
           df_r |-> IF rawReviews.kind = "none" THEN DataFrameVazio
                    ELSE [cols |-> rawReviews.cols, rows |-> rawReviews.rows] ]

\* an audit entry with its two counts swapped
Etapa_trocada(nome, antes, depois) == <<nome, depois, antes>>

\* an entry of the audit trail: etapas.append((nome, antes, len(df)))
Etapa(nome, antes, depois) == <<nome, antes, depois>>

\* stage 1
Duplicatas(d) == [d EXCEPT !.rows = drop_duplicates(d.rows)]

\* stage 2
FiltroCategoria(d) == [d EXCEPT !.rows = SelectSeq(d.rows, CategoriaAlvo)]

\* stage 3: the derived column, then the filter on it
FiltroInstalacoes(d) ==
    LET com == [i \in 1..Len(d.rows) |->
                   d.rows[i] @@ [instalacoes_num |-> instalacoes_num(d.cols, d.rows[i])]]
    IN  [ cols |-> d.cols \cup {"instalacoes_num"},
          rows |-> SelectSeq(com, LAMBDA r : r.instalacoes_num >= MIN_INSTALACOES) ]

\* stage 4: the derived column, then the filter on it
FiltroAtualizacao(d) ==
    LET com == [i \in 1..Len(d.rows) |->
                   d.rows[i] @@ [updated_dt |-> updated_dt(d.cols, d.rows[i])]]
    IN  [ cols |-> d.cols \cup {"updated_dt"},
          rows |-> SelectSeq(com, Atualizado) ]

\* stage 5
FiltroRelevancia(d) == [d EXCEPT !.rows = SelectSeq(d.rows, Relevante)]

\* stage 6
ClassificarDesenvolvedor(d) ==
    [ cols |-> d.cols \cup {"tipo_desenvolvedor"},
      rows |-> [i \in 1..Len(d.rows) |->
                   d.rows[i] @@ [tipo_desenvolvedor |-> _classificar_dev(d.rows[i].developer)]] ]

\* stage 8 that keeps every review
FiltroReviews_semFiltro(d, r) == r

\* stage 8: df_r[df_r["appId"].isin(ids_validos)] when len(df_r) is not 0
FiltroReviews(d, r) ==
    LET ids_validos == { d.rows[i].appId : i \in 1..Len(d.rows) }
    IN  IF Len(r.rows) # 0
        THEN [r EXCEPT !.rows = SelectSeq(r.rows, LAMBDA v : v.appId \in ids_validos)]
        ELSE r

\* DataFrame.to_csv: a table without columns leaves an empty file
to_csv(d) == IF d.cols = {} THEN Blank ELSE Tabela(d.cols, d.rows)

\* an exception leaves executar_limpeza and, uncaught, main
LevantarNaLimpeza(nome) ==
    /\ pcL' = "excecao"
    /\ Levantar(nome)
    /\ UNCHANGED <<vInter, vRel, vDev, vPuras, vQual, fases, executadas, vArq, df, df_r, total_bruto,
                   total_rev_bruto, etapas, log>>

Carregar ==
    /\ pcL = "carregar"
    /\ LET b == _carregar_brutos
       IN  IF b.erro # "" THEN LevantarNaLimpeza(b.erro)
           ELSE /\ df' = b.df_a
                /\ df_r' = b.df_r
                /\ total_bruto' = Len(b.df_a.rows)
                /\ total_rev_bruto' = Len(b.df_r.rows)
                /\ etapas' = <<>>
                /\ log' = Append(log, <<"Brutos carregados", Len(b.df_a.rows),
                                        Len(b.df_r.rows)>>)
                /\ pcL' = "duplicatas"
                /\ UNCHANGED <<vInter, vRel, vDev, vPuras, vQual, vMain, vArq>>

\* a filter stage: antes = len(df); df = <filter>; etapas.append(...)
Filtrar(aqui, nome, novo, depois) ==
    /\ pcL = aqui
    /\ df' = novo
    /\ etapas' = Append(etapas, Etapa(nome, Len(df.rows), Len(novo.rows)))
    /\ pcL' = depois
    /\ UNCHANGED <<vInter, vRel, vDev, vPuras, vQual, vMain, vArq, df_r, total_bruto, total_rev_bruto, log>>

EtapaDuplicatas ==
    Filtrar("duplicatas", "Remocao de duplicatas", Duplicatas(df), "categoria")

EtapaCategoria ==
    Filtrar("categoria", "Filtro por categoria", FiltroCategoria(df), "instalacoes")

\* with neither install column the expression is the scalar 0, which has
\* no fillna: AttributeError
EtapaInstalacoes ==
    IF ColunaInstalacoes(df.cols) = ""
    THEN pcL = "instalacoes" /\ LevantarNaLimpeza("AttributeError")
    ELSE Filtrar("instalacoes", "Instalacoes >= 1,000", FiltroInstalacoes(df),
                 "atualizacao")

EtapaAtualizacao ==
    Filtrar("atualizacao", "Atualizacao < 24 meses", FiltroAtualizacao(df),
            "relevancia")

EtapaRelevancia ==
    Filtrar("relevancia", "Relevancia tematica", FiltroRelevancia(df),
            "desenvolvedor")

EtapaDesenvolvedor ==
    /\ pcL = "desenvolvedor"
    /\ df' = ClassificarDesenvolvedor(df)
    /\ pcL' = "ordenar"
    /\ UNCHANGED <<vInter, vRel, vDev, vPuras, vQual, vMain, vArq, df_r, total_bruto, total_rev_bruto, etapas, log>>

EtapaOrdenar ==
    /\ pcL = "ordenar"
    /\ \E p \in sort_values(df.rows) : df' = [df EXCEPT !.rows = p]
    /\ pcL' = "reviews"
    /\ UNCHANGED <<vInter, vRel, vDev, vPuras, vQual, vMain, vArq, df_r, total_bruto, total_rev_bruto, etapas, log>>

EtapaReviews ==
    /\ pcL = "reviews"
    /\ df_r' = FiltroReviews(df, df_r)
    /\ pcL' = "salvar"
    /\ UNCHANGED <<vInter, vRel, vDev, vPuras, vQual, vMain, vArq, df, total_bruto, total_rev_bruto, etapas, log>>

\* the two to_csv calls
Salvar ==
    /\ pcL = "salvar"
    /\ cleanApps' = to_csv(df)
    /\ cleanReviews' = to_csv(df_r)
    /\ escritas' = escritas \o <<"apps_limpos", "reviews_limpos">>
    /\ pcL' = "relatorio"
    /\ UNCHANGED <<vInter, vRel, vDev, vPuras, vQual, vMain, rawApps, rawReviews, relatorio, df, df_r, total_bruto,
                   total_rev_bruto, etapas, log>>

\* relatorio_limpeza.txt: the four totals and one line per audit entry
\* (its "Data:" line, the wall clock, is left out)
Relatorio ==
    /\ pcL = "relatorio"
    /\ relatorio' = [ kind |-> "txt",
                      apps_brutos |-> total_bruto,
                      apps_apos |-> Len(df.rows),
                      reviews_brutos |-> total_rev_bruto,
                      reviews_apos |-> Len(df_r.rows),
                      etapas |-> etapas ]
    /\ escritas' = Append(escritas, "relatorio_limpeza")
    /\ pcL' = "log"
    /\ UNCHANGED <<vInter, vRel, vDev, vPuras, vQual, vMain, rawApps, rawReviews, cleanApps, cleanReviews, df, df_r,
                   total_bruto, total_rev_bruto, etapas, log>>

\* the closing log lines, then return (df, df_r); main goes on to phase 3.5
Retornar ==
    /\ pcL = "log"
    /\ log' = log \o [i \in 1..Len(etapas) |-> <<"etapa">> \o etapas[i]]
                  \o << <<"Resultado", Len(df.rows), Len(df_r.rows)>> >>
    /\ pcL' = "retornou"
    /\ pc' = Proxima("3")
    /\ UNCHANGED <<vInter, vRel, vDev, vPuras, vQual, fases, executadas, excecao, vArq, df, df_r, total_bruto,
                   total_rev_bruto, etapas>>

Limpeza ==
    \/ Carregar
    \/ EtapaDuplicatas
    \/ EtapaCategoria
    \/ EtapaInstalacoes
    \/ EtapaAtualizacao
    \/ EtapaRelevancia
    \/ EtapaDesenvolvedor
    \/ EtapaOrdenar
    \/ EtapaReviews
    \/ Salvar
    \/ Relatorio
    \/ Retornar

\* what a cleaning run leaves behind: the raw tables it read, how far it
\* got, the clock its cutoff came from, its audit trail and its survivors
Deixado ==
    [ apps |-> rawApps, reviews |-> rawReviews, pcL |-> pcL, agora |-> agora,
      etapas |-> etapas,
      ids |-> {df.rows[i].appId : i \in 1..Len(df.rows)},
      revs |-> {df_r.rows[i] : i \in 1..Len(df_r.rows)} ]

\* python pipeline_principal.py once more, with the same --fase argument,
\* after the first invocation has ended: the process starts afresh, the
\* files stay, and importing src/config.py reads the clock again, at the
\* same day or a day later
NovaInvocacao ==
    /\ pc \in {"fim", "erro"}
    /\ anterior = Nenhuma
    /\ anterior' = Deixado
    /\ agora' \in {agora, agora + SegundosPorDia}
    /\ pc' = "1"
    /\ executadas' = <<>>
    /\ excecao' = ""
    /\ escritas' = <<>>
    /\ pcL' = "inativo"
    /\ df' = DataFrameVazio
    /\ df_r' = DataFrameVazio
    /\ total_bruto' = 0
    /\ total_rev_bruto' = 0
    /\ etapas' = <<>>
    /\ log' = <<>>
    /\ UNCHANGED <<vInter, vDev, vPuras, vQual, fases, rawApps, rawReviews,
                   cleanApps, cleanReviews, relatorio>>

Pipeline ==
    \/ Pular
    \/ Coleta
    \/ ChamarFase
    \/ IniciarLimpeza
    \/ Limpeza
    \/ NovaInvocacao

Next == Pipeline

Spec == Init /\ [][Next]_vars

\* ------------------------------------------- _classificar_dev on its own

\* most words in a developer name
MaxPalavras == 2

Palavras ==
    { <<"S","e","c","r","e","t","a","r","i","a">>, <<"H","o","s","p","i","t","a","l">>, <<"U","n","i","v","e","r","s","i","d","a","d","e">>, <<"S","U","S">>, <<"A","c","m","e">>, <<"U","n","i","m","e","d">>,
      <<"F","e","d","e","r","a","l">>, <<"A","p","p","s">> }

RECURSIVE Juntar(_)
Juntar(ps) ==
    IF ps = <<>> THEN <<>>
    ELSE IF Len(ps) = 1 THEN ps[1]
    ELSE ps[1] \o <<" ">> \o Juntar(Tail(ps))

\* developer cells: missing, names of up to MaxPalavras words, and three
\* full names
Desenvolvedores ==
    {NaN} \cup { Juntar(ps) : ps \in SeqAte(Palavras, MaxPalavras) }
          \cup { <<"S","e","c","r","e","t","a","r","i","a"," ","M","u","n","i","c","i","p","a","l"," ","d","e"," ","S","a","u'","d","e">>, <<"H","o","s","p","i","t","a","l"," ","A","l","b","e","r","t"," ","E","i","n","s","t","e","i","n">>,
                 <<"A","c","m","e"," ","H","e","a","l","t","h"," ","A","p","p","s"," ","L","t","d","a">> }

InitDev ==
    /\ dev \in Desenvolvedores
    /\ tipo = ""
    /\ args_fase = << <<"3">> >>
    /\ fases = fases_de(args_fase)
    /\ rawApps = NoFile
    /\ rawReviews = NoFile
    /\ InitResto
    /\ InitSemInter
    /\ InitSemPuras
    /\ InitSemQual

\* df["developer"].apply(_classificar_dev), one cell
ClassificarDev ==
    /\ tipo = ""
    /\ tipo' = _classificar_dev(dev)
    /\ UNCHANGED <<dev, vMain, vArq, vLimp, vPuras, vQual, vRel, vInter>>

NextDev == ClassificarDev

SpecDev == InitDev /\ [][NextDev]_vars

\* ------------------------------------------------- _classificar_eixo

\* the axes in the order the dict declares them; names without accents
EIXOS_TEMATICOS ==
    <<
      [ eixo |-> "Interoperabilidade e Integracao de Dados",
        keywords |-> <<
          <<"s","i","n","c","r","o","n","i","z">>,
          <<"s","i","n","c","r","o","n","i","a">>,
          <<"i","n","t","e","g","r","a">>,
          <<"d","a","d","o","s"," ","n","a~","o">>,
          <<"d","a","d","o","s"," ","n","a","o">>,
          <<"c","o","n","e","c","t","a","r">>,
          <<"c","o","n","e","x","a~","o">>,
          <<"c","o","n","e","x","a","o">>,
          <<"i","m","p","o","r","t","a","r">>,
          <<"e","x","p","o","r","t","a","r">>,
          <<"t","r","a","n","s","f","e","r","i","r">>,
          <<"t","r","a","n","s","f","e","r","e^","n","c","i","a">>,
          <<"a","p","i">>,
          <<"s","e","r","v","i","d","o","r">>,
          <<"o","f","f","l","i","n","e">>,
          <<"o","n","l","i","n","e">>,
          <<"n","a~","o"," ","c","a","r","r","e","g","a">>,
          <<"n","a","o"," ","c","a","r","r","e","g","a">>,
          <<"n","a~","o"," ","s","i","n","c","r","o","n","i","z">>,
          <<"n","a","o"," ","s","i","n","c","r","o","n","i","z">>,
          <<"p","e","r","d","i"," ","d","a","d","o","s">>,
          <<"p","e","r","d","i"," ","o","s"," ","d","a","d","o","s">>,
          <<"n","a~","o"," ","a","t","u","a","l","i","z","a">>,
          <<"n","a","o"," ","a","t","u","a","l","i","z","a">>,
          <<"d","e","s","c","o","n","e","c","t">>,
          <<"c","o","m","p","a","t","i'","v","e","l">>,
          <<"c","o","m","p","a","t","i","v","e","l">>,
          <<"i","n","c","o","m","p","a","t","i'","v","e","l">>,
          <<"i","n","c","o","m","p","a","t","i","v","e","l">>,
          <<"v","i","n","c","u","l","a","r">>,
          <<"c","a","d","a","s","t","r","o">>,
          <<"l","o","g","i","n">>,
          <<"a","u","t","e","n","t","i","c","a","c,","a~","o">>,
          <<"i","n","t","e","r","o","p","e","r","a","b">>,
          <<"f","h","i","r">>,
          <<"h","l","7">>,
          <<"b","a","n","c","o"," ","d","e"," ","d","a","d","o","s">>,
          <<"p","r","o","n","t","u","a'","r","i","o">>,
          <<"p","r","o","n","t","u","a","r","i","o">>,
          <<"r","e","g","i","s","t","r","o">>,
          <<"m","i","g","r","a","r">>,
          <<"m","i","g","r","a","c,","a~","o">>,
          <<"b","a","c","k","u","p">>
        >> ],
      [ eixo |-> "Seguranca da Informacao e Privacidade",
        keywords |-> <<
          <<"s","e","g","u","r","a","n","c,","a">>,
          <<"s","e","g","u","r","a","n","c","a">>,
          <<"p","r","i","v","a","c","i","d","a","d","e">>,
          <<"d","a","d","o","s"," ","p","e","s","s","o","a","i","s">>,
          <<"l","g","p","d">>,
          <<"p","r","o","t","e","c,","a~","o">>,
          <<"p","r","o","t","e","c","a","o">>,
          <<"v","a","z","a","m","e","n","t","o">>,
          <<"v","a","z","a","r">>,
          <<"s","e","n","h","a">>,
          <<"c","r","i","p","t","o","g","r","a","f">>,
          <<"h","a","c","k">>,
          <<"r","o","u","b","a","r">>,
          <<"r","o","u","b","a","r","a","m">>,
          <<"p","e","r","m","i","s","s","a~","o">>,
          <<"p","e","r","m","i","s","s","a","o">>,
          <<"a","c","e","s","s","o"," ","i","n","d","e","v","i","d","o">>,
          <<"i","n","f","o","r","m","a","c,","a~","o"," ","p","e","s","s","o","a","l">>,
          <<"i","n","f","o","r","m","a","c","a","o"," ","p","e","s","s","o","a","l">>,
          <<"c","o","n","f","i","a'","v","e","l">>,
          <<"c","o","n","f","i","a","v","e","l">>,
          <<"d","e","s","c","o","n","f","i">>,
          <<"e","x","p","o","r">>,
          <<"e","x","p","o","s","i","c,","a~","o">>,
          <<"d","a","d","o","s"," ","s","e","n","s","i'","v","e","i","s">>,
          <<"d","a","d","o","s"," ","s","e","n","s","i","v","e","i","s">>,
          <<"a","u","t","e","n","t","i","c","a","c,","a~","o">>,
          <<"a","u","t","e","n","t","i","c","a","c","a","o">>,
          <<"t","o","k","e","n">>,
          <<"b","i","o","m","e","t","r","i","a">>,
          <<"c","e","r","t","i","f","i","c","a","d","o"," ","d","i","g","i","t","a","l">>,
          <<"a","s","s","i","n","a","t","u","r","a"," ","d","i","g","i","t","a","l">>
        >> ],
      [ eixo |-> "Usabilidade e Experiencia do Usuario (UX)",
        keywords |-> <<
          <<"d","i","f","i'","c","i","l">>,
          <<"d","i","f","i","c","i","l">>,
          <<"c","o","m","p","l","i","c","a","d">>,
          <<"c","o","n","f","u","s">>,
          <<"i","n","t","e","r","f","a","c","e">>,
          <<"t","e","l","a">>,
          <<"b","o","t","a~","o">>,
          <<"b","o","t","a","o">>,
          <<"m","e","n","u">>,
          <<"i","n","t","u","i","t","i","v">>,
          <<"l","a","y","o","u","t">>,
          <<"d","e","s","i","g","n">>,
          <<"v","i","s","u","a","l">>,
          <<"n","a~","o"," ","e","n","c","o","n","t","r">>,
          <<"n","a","o"," ","e","n","c","o","n","t","r">>,
          <<"c","a","d","e^">>,
          <<"c","a","d","e">>,
          <<"o","n","d","e"," ","f","i","c","a">>,
          <<"c","o","m","o"," ","f","a","z">>,
          <<"c","o","m","o"," ","f","a","c,","o">>,
          <<"n","a","v","e","g","a","c,","a~","o">>,
          <<"n","a","v","e","g","a","c","a","o">>,
          <<"a","c","e","s","s","i","b","i","l","i","d","a","d">>,
          <<"l","e","t","r","a"," ","p","e","q","u","e","n","a">>,
          <<"n","a~","o"," ","c","o","n","s","i","g","o">>,
          <<"n","a","o"," ","c","o","n","s","i","g","o">>,
          <<"c","o","m","p","l","i","c","a","d","o"," ","d","e"," ","u","s","a","r">>,
          <<"d","i","f","i'","c","i","l"," ","d","e"," ","u","s","a","r">>,
          <<"u","x">>,
          <<"e","x","p","e","r","i","e^","n","c","i","a">>,
          <<"e","x","p","e","r","i","e","n","c","i","a">>,
          <<"u","s","a","b","i","l","i","d","a","d">>,
          <<"t","u","t","o","r","i","a","l">>,
          <<"a","j","u","d","a">>,
          <<"m","a","n","u","a","l">>
        >> ],
      [ eixo |-> "Funcionalidade e Estabilidade Tecnica",
        keywords |-> <<
          <<"b","u","g">>,
          <<"e","r","r","o">>,
          <<"c","r","a","s","h">>,
          <<"t","r","a","v","a">>,
          <<"t","r","a","v","a","n","d","o">>,
          <<"f","e","c","h","a"," ","s","o","z","i","n","h","o">>,
          <<"f","e","c","h","o","u">>,
          <<"p","a","r","o","u">>,
          <<"p","a","r","a","r"," ","d","e"," ","f","u","n","c","i","o","n","a","r">>,
          <<"n","a~","o"," ","f","u","n","c","i","o","n","a">>,
          <<"n","a","o"," ","f","u","n","c","i","o","n","a">>,
          <<"n","a~","o"," ","a","b","r","e">>,
          <<"n","a","o"," ","a","b","r","e">>,
          <<"p","r","o","b","l","e","m","a">>,
          <<"f","a","l","h","a">>,
          <<"d","e","f","e","i","t","o">>,
          <<"q","u","e","b","r">>,
          <<"a","t","u","a","l","i","z","a","c,","a~","o"," ","q","u","e","b","r","o","u">>,
          <<"a","t","u","a","l","i","z","a","c","a","o"," ","q","u","e","b","r","o","u">>,
          <<"n","a~","o"," ","r","e","s","p","o","n","d","e">>,
          <<"n","a","o"," ","r","e","s","p","o","n","d","e">>,
          <<"c","o","n","g","e","l","o","u">>,
          <<"c","o","n","g","e","l","a">>,
          <<"l","i","x","o">>,
          <<"p","e'","s","s","i","m","o">>,
          <<"p","e","s","s","i","m","o">>,
          <<"h","o","r","r","i'","v","e","l">>,
          <<"h","o","r","r","i","v","e","l">>,
          <<"i","n","u'","t","i","l">>,
          <<"i","n","u","t","i","l">>,
          <<"p","o","r","c","a","r","i","a">>,
          <<"i","n","s","t","a'","v","e","l">>,
          <<"i","n","s","t","a","v","e","l">>,
          <<"v","e","r","s","a~","o">>,
          <<"v","e","r","s","a","o">>
        >> ],
      [ eixo |-> "Desempenho e Infraestrutura",
        keywords |-> <<
          <<"l","e","n","t","o">>,
          <<"l","e","n","t","i","d","a~","o">>,
          <<"l","e","n","t","i","d","a","o">>,
          <<"d","e","m","o","r","a">>,
          <<"p","e","s","a","d","o">>,
          <<"m","e","m","o'","r","i","a">>,
          <<"m","e","m","o","r","i","a">>,
          <<"b","a","t","e","r","i","a">>,
          <<"c","o","n","s","u","m","o">>,
          <<"e","s","p","a","c,","o">>,
          <<"e","s","p","a","c","o">>,
          <<"a","r","m","a","z","e","n","a","m","e","n","t","o">>,
          <<"c","a","r","r","e","g","a","n","d","o">>,
          <<"l","o","a","d","i","n","g">>,
          <<"t","r","a","v","a","n","d","o">>,
          <<"l","a","g">>,
          <<"o","t","i","m","i","z">>,
          <<"r","a'","p","i","d","o">>,
          <<"r","a","p","i","d","o">>,
          <<"v","e","l","o","z">>,
          <<"i","n","t","e","r","n","e","t">>,
          <<"b","a","n","d","a">>,
          <<"w","i","f","i">>,
          <<"3","g">>,
          <<"4","g">>,
          <<"5","g">>,
          <<"s","e","r","v","i","d","o","r"," ","f","o","r","a">>,
          <<"i","n","d","i","s","p","o","n","i'","v","e","l">>,
          <<"i","n","d","i","s","p","o","n","i","v","e","l">>,
          <<"t","e","m","p","o"," ","d","e"," ","r","e","s","p","o","s","t","a">>,
          <<"t","i","m","e","o","u","t">>
        >> ]
    >>

\* _classificar_eixo that lists the matching axes last to first
_classificar_eixo_inverso(t) ==
    LET com == SelectSeq(EIXOS_TEMATICOS,
                   LAMBDA e : \E n \in 1..Len(e.keywords) : Substring(e.keywords[n], t))
        eixos_ == [i \in 1..Len(com) |-> com[Len(com) + 1 - i].eixo]
    IN  IF eixos_ # <<>> THEN eixos_ ELSE <<"Outros">>

\* _classificar_eixo(txt)
_classificar_eixo(t) ==
    LET com == SelectSeq(EIXOS_TEMATICOS,
                   LAMBDA e : \E n \in 1..Len(e.keywords) : Substring(e.keywords[n], t))
        eixos_ == [i \in 1..Len(com) |-> com[i].eixo]
    IN  IF eixos_ # <<>> THEN eixos_ ELSE <<"Outros">>

\* most words in a generated review text
MaxTokens == 2

PalavrasTexto ==
    { <<"e","r","r","o">>, <<"s","i","n","c","r","o","n","i","z","a","r">>, <<"t","r","a","v","a","n","d","o">>, <<"m","u","i","t","o">>, <<"b","o","m">>, <<"r","e","c","o","m","e","n","d","o">>,
      <<"s","e","n","h","a">>, <<"t","e","l","a">>, <<"l","e","n","t","o">>, <<"o'","t","i","m","o">> }

\* normalized review texts: up to MaxTokens words joined by single spaces,
\* and four whole sentences
Textos ==
    { Juntar(ps) : ps \in SeqAte(PalavrasTexto, MaxTokens) }
      \cup { <<"e","r","r","o"," ","a","o"," ","s","i","n","c","r","o","n","i","z","a","r"," ","d","a","d","o","s",","," ","t","r","a","v","a","n","d","o"," ","s","e","m","p","r","e">>,
             <<"e","r","r","o"," ","a","o"," ","s","i","n","c","r","o","n","i","z","a","r"," ","d","a","d","o","s"," ","t","r","a","v","a","n","d","o"," ","s","e","m","p","r","e">>,
             <<"m","u","i","t","o"," ","b","o","m",","," ","r","e","c","o","m","e","n","d","o">>,
             <<"n","a~","o"," ","c","o","n","s","i","g","o"," ","f","a","z","e","r"," ","l","o","g","i","n"," ","p","e","r","d","i"," ","o","s"," ","d","a","d","o","s">> }

\* no review-processing state outside the pure functions
InitSoPuras ==
    /\ args_fase = << <<"3">> >>
    /\ fases = fases_de(args_fase)
    /\ rawApps = NoFile
    /\ rawReviews = NoFile
    /\ InitResto
    /\ InitSemInter
    /\ InitSemDev
    /\ InitSemQual

InitEixo ==
    /\ txt \in Textos
    /\ pol = 0
    /\ sent = <<>>
    /\ eixos = <<>>
    /\ InitSoPuras

\* df["texto_limpo"].apply(_classificar_eixo), one text
ClassificarEixo ==
    /\ eixos = <<>>
    /\ eixos' = _classificar_eixo(txt)
    /\ UNCHANGED <<txt, pol, sent, vMain, vArq, vLimp, vDev, vQual, vRel, vInter>>

NextEixo == ClassificarEixo

SpecEixo == InitEixo /\ [][NextEixo]_vars

\* ------------------------------------------------------- _sentimento

\* polarities are kept in millionths: Unidade is 1.0
Unidade == 1000000

\* (p - n) * 0.15
AJUSTE == 150000

\* pol > 0.05, pol < -0.05
LIMIAR == 50000

_POSITIVAS ==
    { <<"a","d","o","r","e","i">>, <<"a","j","u","d","a">>, <<"a","m","e","i">>, <<"b","o","a">>,
      <<"b","o","m">>, <<"e","f","i","c","i","e","n","t","e">>, <<"e","x","c","e","l","e","n","t","e">>, <<"f","u","n","c","i","o","n","a">>,
      <<"f","a'","c","i","l">>, <<"g","o","s","t","e","i">>, <<"i","n","c","r","i'","v","e","l">>, <<"l","e","g","a","l">>,
      <<"m","a","r","a","v","i","l","h","o","s","a">>, <<"m","a","r","a","v","i","l","h","o","s","o">>, <<"m","e","l","h","o","r">>, <<"p","a","r","a","b","e'","n","s">>,
      <<"p","e","r","f","e","i","t","a">>, <<"p","e","r","f","e","i","t","o">>, <<"p","r","a'","t","i","c","a">>, <<"p","r","a'","t","i","c","o">>,
      <<"r","e","c","o","m","e","n","d","o">>, <<"r","a'","p","i","d","a">>, <<"r","a'","p","i","d","o">>, <<"s","a","t","i","s","f","e","i","t","o">>,
      <<"t","o","p">>, <<"o'","t","i","m","a">>, <<"o'","t","i","m","o">>, <<"u'","t","i","l">> }

_NEGATIVAS ==
    { <<"a","n","u'","n","c","i","o">>, <<"a","n","u'","n","c","i","o","s">>, <<"b","u","g">>, <<"d","e","c","e","p","c","i","o","n">>,
      <<"d","e","c","e","p","c","i","o","n","a","n","t","e">>, <<"d","e","c","e","p","c","i","o","n","o","u">>, <<"d","e","m","o","r","a">>, <<"d","e","s","i","n","s","t","a","l","a","r">>,
      <<"d","e","s","i","n","s","t","a","l","e","i">>, <<"e","r","r","o">>, <<"f","a","l","h","a">>, <<"f","u","n","c","i","o","n","o","u">>,
      <<"h","o","r","r","e","n","d","o">>, <<"h","o","r","r","i'","v","e","l">>, <<"i","n","u'","t","i","l">>, <<"l","e","n","t","a">>,
      <<"l","e","n","t","o">>, <<"l","i","x","o">>, <<"m","e","r","d","a">>, <<"n","o","j","o">>,
      <<"o","d","i","e","i">>, <<"p","a","r","o","u">>, <<"p","e","s","s","i","m","a">>, <<"p","e","s","s","i","m","o">>,
      <<"p","i","o","r">>, <<"p","o","r","c","a","r","i","a">>, <<"p","r","o","p","a","g","a","n","d","a">>, <<"p","e'","s","s","i","m","a">>,
      <<"p","e'","s","s","i","m","o">>, <<"r","u","i","m">>, <<"t","e","r","r","i'","v","e","l">>, <<"t","r","a","v","a">>,
      <<"t","r","a","v","a","n","d","o">> }
\* txt.split(): the maximal runs of characters other than whitespace
split(t) ==
    { SubSeq(t, ij[1], ij[2]) :
        ij \in { x \in (1..Len(t)) \X (1..Len(t)) :
                   /\ x[1] <= x[2]
                   /\ \A k \in x[1]..x[2] : t[k] # " "
                   /\ x[1] = 1 \/ t[x[1] - 1] = " "
                   /\ x[2] = Len(t) \/ t[x[2] + 1] = " " } }

\* the places of t where a word of the lexicon stands as a token
Ocorrencias(t, lexico) ==
    { i \in 1..Len(t) :
        /\ t[i] # " "
        /\ i = 1 \/ t[i - 1] = " "
        /\ \E j \in i..Len(t) :
              /\ j = Len(t) \/ t[j + 1] = " "
              /\ \A k \in i..j : t[k] # " "
              /\ SubSeq(t, i, j) \in lexico }

rotulo(p) ==
    IF p > LIMIAR THEN <<"Positivo", p>>
    ELSE IF p < -LIMIAR THEN <<"Negativo", p>>
    ELSE <<"Neutro", p>>

max(a, b) == IF a >= b THEN a ELSE b

min(a, b) == IF a <= b THEN a ELSE b

\* _sentimento whose tests are pol >= 0.05 and pol <= -0.05
_sentimento_naoEstrito(t, base) ==
    LET words == split(t)
        p == Cardinality(words \cap _POSITIVAS)
        n == Cardinality(words \cap _NEGATIVAS)
        p_ == max(-Unidade, min(Unidade, base + (p - n) * AJUSTE))
    IN  IF p_ >= LIMIAR THEN <<"Positivo", p_>>
        ELSE IF p_ <= -LIMIAR THEN <<"Negativo", p_>>
        ELSE <<"Neutro", p_>>

\* _sentimento that counts every occurrence of a lexicon word
_sentimento_comRepeticao(t, base) ==
    LET p == Cardinality(Ocorrencias(t, _POSITIVAS))
        n == Cardinality(Ocorrencias(t, _NEGATIVAS))
    IN  rotulo(max(-Unidade, min(Unidade, base + (p - n) * AJUSTE)))

\* _sentimento(txt), with the polarity TextBlob gives for txt as base
_sentimento(t, base) ==
    LET words == split(t)
        p == Cardinality(words \cap _POSITIVAS)
        n == Cardinality(words \cap _NEGATIVAS)
        ajuste == (p - n) * AJUSTE
    IN  rotulo(max(-Unidade, min(Unidade, base + ajuste)))

\* polarities TextBlob may give, around the thresholds and at the ends
Polaridades ==
    { -Unidade, -200000, -LIMIAR - 1, -LIMIAR, 0, LIMIAR, LIMIAR + 1, 200000,
      900000, Unidade }

InitSentimento ==
    /\ txt \in Textos
    /\ pol \in Polaridades
    /\ sent = <<>>
    /\ eixos = <<>>
    /\ InitSoPuras

\* df["texto_limpo"].apply(_sentimento), one text
Sentimento ==
    /\ sent = <<>>
    /\ sent' = _sentimento(txt, pol)
    /\ UNCHANGED <<txt, pol, eixos, vMain, vArq, vLimp, vDev, vQual, vRel, vInter>>

NextSentimento == Sentimento

SpecSentimento == InitSentimento /\ [][NextSentimento]_vars

\* ----------------------------------------- executar_analise_qualitativa

\* the characters the second re.sub of _limpar keeps: [a-z...c-cedilla]
Letras ==
    { "a", "b", "c", "d", "e", "f", "g", "h", "i", "j", "k", "l", "m", "n",
      "o", "p", "q", "r", "s", "t", "u", "v", "w", "x", "y", "z",
      "a'", "a`", "a^", "a~", "e'", "e^", "i'", "o'", "o^", "o~", "u'", "u:", "c," }

\* the text after the first whitespace, whitespace included
RECURSIVE AteEspaco(_)
AteEspaco(t) ==
    IF t = <<>> THEN <<>>
    ELSE IF Head(t) = " " THEN t
    ELSE AteEspaco(Tail(t))

\* re.sub(r"http\S+", "", txt)
RECURSIVE SemURLs(_)
SemURLs(t) ==
    IF t = <<>> THEN <<>>
    ELSE IF Len(t) >= 5 /\ SubSeq(t, 1, 4) = <<"h","t","t","p">> /\ t[5] # " "
    THEN SemURLs(AteEspaco(t))
    ELSE <<Head(t)>> \o SemURLs(Tail(t))

\* re.sub(r"[^a-z...\s]", " ", txt)
SoLetras(t) ==
    [i \in 1..Len(t) |-> IF t[i] \in Letras \cup {" "} THEN t[i] ELSE " "]

\* re.sub(r"\s+", " ", txt).strip()
RECURSIVE Colapsar(_)
Colapsar(t) ==
    IF t = <<>> THEN <<>>
    ELSE IF Head(t) = " " /\ (Len(t) = 1 \/ t[2] = " ") THEN Colapsar(Tail(t))
    ELSE <<Head(t)>> \o Colapsar(Tail(t))

strip(t) == IF t # <<>> /\ Head(t) = " " THEN Tail(t) ELSE t

\* str(txt): the text itself, "nan" for a missing value
str(t) == IF t = NaN THEN <<"n","a","n">> ELSE t

\* _limpar without the whitespace collapse and strip of its last line
_limpar_semColapso(t) == SoLetras(SemURLs(lower(str(t))))

\* _limpar(txt)
_limpar(t) == strip(Colapsar(SoLetras(SemURLs(lower(str(t))))))

\* most reviews in the input file
MaxReviews == 2

\* reviews as the file holds them: the text, and the polarity TextBlob
\* gives for the text once normalized
ReviewLongo ==
    [ appId |-> "a", content |-> <<"A","p","p"," ","M","U","I","T","O"," ","l","e","n","t","o",","," ","e","r","r","o"," ","a","o"," ","s","i","n","c","r","o","n","i","z","a","r","!">>, pol |-> 0 ]

\* normalized to "tela lenta", 10 characters
ReviewDez ==
    [ appId |-> "a", content |-> <<"T","e","l","a"," ","l","e","n","t","a">>, pol |-> 0 ]

\* normalized to "senha ok ok", 11 characters
ReviewOnze ==
    [ appId |-> "b", content |-> <<"S","e","n","h","a"," ","1","2","3"," ","o","k"," ","o","k">>, pol |-> -LIMIAR ]

\* normalized to "otimo app", 9 characters
ReviewNove ==
    [ appId |-> "b", content |-> <<"O","t","i","m","o"," ","a","p","p","!">>, pol |-> 0 ]

ReviewCurto ==
    [ appId |-> "c", content |-> <<"b","o","m">>, pol |-> 0 ]

\* normalized to "muito bom recomendo"
ReviewComURL ==
    [ appId |-> "c", content |-> <<"M","u","i","t","o"," ","b","o","m",","," ","r","e","c","o","m","e","n","d","o","!"," ","h","t","t","p",":","/","/","x",".","c","o","/","a">>, pol |-> 200000 ]

ReviewSemTexto ==
    [ appId |-> "a", content |-> NaN, pol |-> 0 ]

ReviewsQ ==
    { ReviewLongo, ReviewDez, ReviewOnze, ReviewNove, ReviewCurto, ReviewComURL,
      ReviewSemTexto }

\* the input files: none, an empty one (limpeza saved a table without
\* columns), and tables of up to MaxReviews reviews
EntradasQ ==
    {NoFile, Blank} \cup
    { Tabela({"appId", "content"}, r) : r \in SeqAte(ReviewsQ, MaxReviews) }

\* Series.value_counts(): the count of each value that occurs
value_counts(valores) ==
    [ v \in { valores[i] : i \in 1..Len(valores) } |->
        Cardinality({ i \in 1..Len(valores) : valores[i] = v }) ]

\* Series.explode() of a series of lists
RECURSIVE explode(_)
explode(listas) ==
    IF listas = <<>> THEN <<>>
    ELSE Head(listas) \o explode(Tail(listas))

\* "; ".join(x)
RECURSIVE join(_)
join(x) ==
    IF Len(x) <= 1 THEN x
    ELSE <<Head(x), "; ">> \o join(Tail(x))

\* pd.crosstab(df_tema["eixo"], df_tema["sentimento"])
crosstab(rows) ==
    [ e \in { rows[i].eixo : i \in 1..Len(rows) } |->
        [ sn \in { rows[i].sentimento : i \in 1..Len(rows) } |->
            Cardinality({ i \in 1..Len(rows) :
                            rows[i].eixo = e /\ rows[i].sentimento = sn }) ] ]

\* an exception leaves executar_analise_qualitativa
LevantarQ(nome) ==
    /\ pcQ' = "excecao"
    /\ excecao' = nome
    /\ UNCHANGED <<fases, pc, executadas, vArq, vLimp, vRel, vInter, vDev, vPuras, entradaQ,
                   dfQ, temas, tab_sent, tab_t, cross, anotados>>

\* read the reviews file, drop the rows without content
CarregarQ ==
    /\ pcQ = "carregar"
    /\ IF entradaQ.kind = "none" THEN LevantarQ("FileNotFoundError")
       ELSE IF entradaQ.kind = "blank" THEN LevantarQ("EmptyDataError")
       ELSE /\ dfQ' = SelectSeq(entradaQ.rows, LAMBDA r : r.content # NaN)
            /\ pcQ' = "limpar"
            /\ UNCHANGED <<vMain, vArq, vLimp, vRel, vInter, vDev, vPuras, entradaQ, temas,
                           tab_sent, tab_t, cross, anotados>>

\* 1. texto_limpo, then df[df["texto_limpo"].str.len() > 10]
PreProcessar ==
    /\ pcQ = "limpar"
    /\ LET com == [i \in 1..Len(dfQ) |->
                      dfQ[i] @@ [texto_limpo |-> _limpar(dfQ[i].content)]]
       IN  dfQ' = SelectSeq(com, LAMBDA r : Len(r.texto_limpo) > 10)
    /\ pcQ' = "sentimento"
    /\ UNCHANGED <<vMain, vArq, vLimp, vRel, vInter, vDev, vPuras, entradaQ, temas, tab_sent,
                   tab_t, cross, anotados>>

\* 2. sentimento and polaridade of each row, sentimentos.csv
SentimentoQ ==
    /\ pcQ = "sentimento"
    /\ LET com == [i \in 1..Len(dfQ) |->
                      LET r == _sentimento(dfQ[i].texto_limpo, dfQ[i].pol)
                      IN  dfQ[i] @@ [sentimento |-> r[1], polaridade |-> r[2]]]
       IN  /\ dfQ' = com
           /\ tab_sent' = [ kind |-> "csv",
                            freq |-> value_counts([i \in 1..Len(com) |-> com[i].sentimento]) ]
    /\ escritas' = Append(escritas, "sentimentos")
    /\ pcQ' = "tematica"
    /\ UNCHANGED <<vMain, rawApps, rawReviews, cleanApps, cleanReviews, relatorio,
                   vLimp, vRel, vInter, vDev, vPuras, entradaQ, temas, tab_t, cross, anotados>>

\* a frequency column that counts each review under its first label only
ContagemTematica_primeiro(listas) ==
    value_counts([i \in 1..Len(listas) |-> listas[i][1]])

\* the frequency column of distribuicao_tematica.csv
ContagemTematica(listas) == value_counts(explode(listas))

\* 3. the labels of each row, distribuicao_tematica.csv
Tematica ==
    /\ pcQ = "tematica"
    /\ LET t == [i \in 1..Len(dfQ) |-> _classificar_eixo(dfQ[i].texto_limpo)]
       IN  /\ temas' = t
           /\ tab_t' = [kind |-> "csv", freq |-> ContagemTematica(t)]
    /\ escritas' = Append(escritas, "distribuicao_tematica")
    /\ pcQ' = "cruzar"
    /\ UNCHANGED <<vMain, rawApps, rawReviews, cleanApps, cleanReviews, relatorio,
                   vLimp, vRel, vInter, vDev, vPuras, entradaQ, dfQ, tab_sent, cross, anotados>>

\* the rows of df_tema: one per review and label, with the review's sentiment
df_tema(listas) ==
    explode([i \in 1..Len(listas) |->
                [k \in 1..Len(listas[i]) |->
                    [ eixo |-> listas[i][k],
                      sentimento |-> dfQ[i].sentimento,
                      polaridade |-> dfQ[i].polaridade ]]])

\* 4. sentimento_por_tema.csv, when there is any row
Cruzar ==
    /\ pcQ = "cruzar"
    /\ LET rows == df_tema(temas)
       IN  IF Len(rows) > 0
           THEN /\ cross' = [kind |-> "csv", freq |-> crosstab(rows)]
                /\ escritas' = Append(escritas, "sentimento_por_tema")
           ELSE UNCHANGED <<cross, escritas>>
    /\ pcQ' = "lda"
    /\ UNCHANGED <<vMain, rawApps, rawReviews, cleanApps, cleanReviews, relatorio,
                   vLimp, vRel, vInter, vDev, vPuras, entradaQ, dfQ, temas, tab_sent, tab_t,
                   anotados>>

\* 5 to 7. CountVectorizer, LDA, word clouds and word frequencies: library
\* calls that write their tables, or raise (CountVectorizer with min_df=3
\* raises ValueError on a corpus that leaves no term)
Topicos ==
    /\ pcQ = "lda"
    /\ \/ /\ escritas' = escritas \o <<"topicos_lda", "frequencia_palavras">>
          /\ pcQ' = "salvar"
          /\ UNCHANGED <<vMain, rawApps, rawReviews, cleanApps, cleanReviews,
                         relatorio, vLimp, vRel, vInter, vDev, vPuras, entradaQ, dfQ, temas,
                         tab_sent, tab_t, cross, anotados>>
       \/ LevantarQ("ValueError")

\* df["eixos"], reviews_anotados.csv, return df
SalvarAnotados ==
    /\ pcQ = "salvar"
    /\ LET com == [i \in 1..Len(dfQ) |-> dfQ[i] @@ [eixos |-> join(temas[i])]]
       IN  /\ dfQ' = com
           /\ anotados' = [kind |-> "csv", rows |-> com]
    /\ escritas' = Append(escritas, "reviews_anotados")
    /\ pcQ' = "retornou"
    /\ UNCHANGED <<vMain, rawApps, rawReviews, cleanApps, cleanReviews, relatorio,
                   vLimp, vRel, vInter, vDev, vPuras, entradaQ, temas, tab_sent, tab_t, cross>>

\* python -m src.qualitativa, over every input file
InitQual ==
    /\ pcQ = "carregar"
    /\ entradaQ \in EntradasQ
    /\ dfQ = <<>>
    /\ temas = <<>>
    /\ tab_sent = NoFile
    /\ tab_t = NoFile
    /\ cross = NoFile
    /\ anotados = NoFile
    /\ args_fase = << <<"4","b">> >>
    /\ fases = fases_de(args_fase)
    /\ rawApps = NoFile
    /\ rawReviews = NoFile
    /\ InitResto
    /\ InitSemInter
    /\ InitSemDev
    /\ InitSemPuras

NextQual ==
    \/ CarregarQ
    \/ PreProcessar
    \/ SentimentoQ
    \/ Tematica
    \/ Cruzar
    \/ Topicos
    \/ SalvarAnotados

SpecQual == InitQual /\ [][NextQual]_vars

\* ------------------------------------------------ _limpar on its own

\* most pieces a raw text is made of
MaxPedacos == 3

\* the pieces: a URL scheme, letters plain, upper case and accented, a
\* digit, punctuation and a blank
Pedacos ==
    { <<"h","t","t","p">>,
      <<"x">>,
      <<" ">>,
      <<"A'">>,
      <<"1">>,
      <<"!">>,
      <<"o","k">>,
      <<":","/","/">>,
      <<"u:">>,
      <<"C,">> }

\* the pieces of a sequence, joined
RECURSIVE Emendar(_)
Emendar(ps) == IF ps = <<>> THEN <<>> ELSE Head(ps) \o Emendar(Tail(ps))

\* the raw texts: a missing value, and up to MaxPedacos pieces joined
TextosBrutos == {NaN} \cup { Emendar(ps) : ps \in SeqAte(Pedacos, MaxPedacos) }

InitLimpar ==
    /\ txt \in TextosBrutos
    /\ pol = 0
    /\ sent = <<>>
    /\ eixos = <<>>
    /\ texto_limpo = Pendente
    /\ InitSemDesc
    /\ InitSemSel
    /\ args_fase = << <<"4","b">> >>
    /\ fases = fases_de(args_fase)
    /\ rawApps = NoFile
    /\ rawReviews = NoFile
    /\ InitResto
    /\ InitSemDev
    /\ InitSemQual

\* df["content"].apply(_limpar), one cell
Limpar ==
    /\ texto_limpo = Pendente
    /\ texto_limpo' = _limpar(txt)
    /\ UNCHANGED <<vDesc, vArgs, vSel, vMain, vArq, vLimp, vDev, vPuras, vQual, vRel>>

\* _limpar applied to a text it has returned
LimparDeNovo ==
    /\ texto_limpo # Pendente
    /\ texto_limpo' = _limpar(texto_limpo)
    /\ UNCHANGED <<vDesc, vArgs, vSel, vMain, vArq, vLimp, vDev, vPuras, vQual, vRel>>

NextLimpar == Limpar \/ LimparDeNovo

SpecLimpar == InitLimpar /\ [][NextLimpar]_vars

\* ------------------------------------------------ selecionar_descritores

\* str.lstrip() and str.rstrip() of blanks
RECURSIVE lstrip(_)
lstrip(t) == IF t # <<>> /\ Head(t) = " " THEN lstrip(Tail(t)) ELSE t

RECURSIVE rstrip(_)
rstrip(t) ==
    IF t # <<>> /\ t[Len(t)] = " " THEN rstrip(SubSeq(t, 1, Len(t) - 1)) ELSE t

\* str.strip(): no blank left at either end
strip_ambos(t) == rstrip(lstrip(t))

\* t.split(sep): the pieces between the separators, empty ones included
RECURSIVE split_por(_, _)
split_por(t, sep) ==
    IF \A i \in 1..Len(t) : t[i] # sep THEN <<t>>
    ELSE LET k == CHOOSE i \in 1..Len(t) :
                      t[i] = sep /\ \A j \in 1..(i - 1) : t[j] # sep
         IN  <<SubSeq(t, 1, k - 1)>> \o split_por(SubSeq(t, k + 1, Len(t)), sep)

\* t.replace(",", " ")
replace_virgula(t) == [i \in 1..Len(t) |-> IF t[i] = "," THEN " " ELSE t[i]]

\* t.split(): the words of t, in order
split_palavras(t) == SelectSeq(split_por(t, " "), LAMBDA x : x # <<>>)

\* int(n): the number, or ValueError (ok = FALSE)
int(n) ==
    IF EhNumero(n) THEN [ok |-> TRUE, v |-> ValorDigitos(n)]
    ELSE IF Len(n) > 1 /\ n[1] \in {"-", "+"} /\ EhNumero(Tail(n))
    THEN [ok |-> TRUE, v |-> IF n[1] = "-" THEN 0 - ValorDigitos(Tail(n))
                                           ELSE ValorDigitos(Tail(n))]
    ELSE [ok |-> FALSE, v |-> 0]

\* x in lista
Em(x, lista) == \E i \in 1..Len(lista) : lista[i] = x

\* lista.remove(r): the list without the first element equal to r
remove(lista, r) ==
    LET k == CHOOSE i \in 1..Len(lista) :
                 lista[i] = r /\ \A j \in 1..(i - 1) : lista[j] # r
    IN  SubSeq(lista, 1, k - 1) \o SubSeq(lista, k + 1, Len(lista))

\* the first loop of the remove command: the descriptors at the valid
\* positions among nums, one per token, in token order
RECURSIVE Removidos(_, _)
Removidos(nums, lista) ==
    IF nums = <<>> THEN <<>>
    ELSE LET idx == int(Head(nums)).v - 1
             resto == Removidos(Tail(nums), lista)
         IN  IF int(Head(nums)).ok /\ 0 <= idx /\ idx < Len(lista)
             THEN <<lista[idx + 1]>> \o resto
             ELSE resto

\* the second loop: for r in removidos: descritores.remove(r); remove
\* raises ValueError when r is no longer in the list
RECURSIVE RemoverTodos(_, _)
RemoverTodos(removidos, lista) ==
    IF removidos = <<>> THEN [erro |-> "", lista |-> lista]
    ELSE IF ~ Em(Head(removidos), lista)
    THEN [erro |-> "ValueError", lista |-> lista]
    ELSE RemoverTodos(Tail(removidos), remove(lista, Head(removidos)))

\* [d.strip() for d in entrada[1:].split(";") if d.strip()]
Novos(entrada) ==
    LET pedacos == split_por(Tail(entrada), ";")
        aparados == [i \in 1..Len(pedacos) |-> strip_ambos(pedacos[i])]
    IN  SelectSeq(aparados, LAMBDA d : d # <<>>)

\* most input lines read before the user confirms
MaxLinhas == 3

\* the lines the user types at the prompt
Linhas ==
    { <<>>,    \* ''
      <<"o","k">>,    \* 'ok'
      <<" ","O","K"," ">>,    \* ' OK '
      <<"C","o","n","f","i","r","m","a","r">>,    \* 'Confirmar'
      <<"+"," ","s","a","u'","d","e"," ","m","e","n","t","a","l"," ","S","I","S">>,    \* '+ saúde mental SIS'
      <<"+"," ","s","i","s","t","e","m","a"," ","i","n","f","o","r","m","a","c,","a~","o"," ","s","a","u'","d","e">>,    \* '+ sistema informação saúde'
      <<"+">>,    \* '+'
      <<"-"," ","1">>,    \* '- 1'
      <<"-"," ","1"," ","1">>,    \* '- 1 1'
      <<"-"," ","1"," ","2"," ","3">>,    \* '- 1 2 3'
      <<"-"," ","2",",","3">>,    \* '- 2,3'
      <<"-"," ","9"," ","x"," ","0">>,    \* '- 9 x 0'
      <<"-"," ","-","1">>,    \* '- -1'
      <<"="," ","m","H","e","a","l","t","h",";"," ","e","-","S","U","S">>,    \* '= mHealth; e-SUS'
      <<"="," ","e","-","S","U","S",";"," ","e","-","S","U","S">>,    \* '= e-SUS; e-SUS'
      <<"=">>,    \* '='
      <<"="," ",";">>,    \* '= ;'
      <<"a","j","u","d","a">> }    \* 'ajuda'

\* selecionar_descritores(modo): descritores = list(DESCRITORES_PADRAO),
\* returned at once in mode "padrao"
ChamarDescritores ==
    /\ pcD = "chamada"
    /\ descritores' = DESCRITORES_PADRAO
    /\ pcD' = IF modo = "padrao" THEN "retornou" ELSE "prompt"
    /\ UNCHANGED <<modo, DESCRITORES, lidas, excecaoD, vArgs, vLimpar, vSel, vMain, vArq, vLimp, vDev,
                   vPuras, vQual, vRel>>

\* what follows the loop: DESCRITORES.clear(); DESCRITORES.extend(descritores);
\* return descritores
Confirmar ==
    /\ DESCRITORES' = descritores
    /\ pcD' = "retornou"
    /\ UNCHANGED <<modo, descritores, excecaoD, vArgs, vLimpar, vSel, vMain, vArq, vLimp, vDev, vPuras,
                   vQual, vRel>>

\* input() raises EOFError or KeyboardInterrupt: break
FimDaEntrada ==
    /\ pcD = "prompt"
    /\ UNCHANGED lidas
    /\ Confirmar

\* an empty line, "ok" or "confirmar": break
Aceitar ==
    /\ pcD = "prompt"
    /\ \E linha \in Linhas :
          LET entrada == strip_ambos(linha)
          IN  entrada = <<>> \/ lower(entrada) \in {<<"o","k">>,
                  <<"c","o","n","f","i","r","m","a","r">>}
    /\ lidas' = lidas + 1
    /\ Confirmar

\* the line read is a command: the loop goes on
Comando(c) == /\ pcD = "prompt"
              /\ lidas < MaxLinhas
              /\ lidas' = lidas + 1
              /\ c # <<>>
              /\ lower(c) \notin {<<"o","k">>, <<"c","o","n","f","i","r","m","a","r">>}

\* "+ termo": append the term unless it is empty or already listed
Adicionar ==
    \E linha \in Linhas :
       LET entrada == strip_ambos(linha)
           novo == strip_ambos(Tail(entrada))
       IN  /\ Comando(entrada)
           /\ Head(entrada) = "+"
           /\ descritores' = IF novo # <<>> /\ ~ Em(novo, descritores)
                              THEN Append(descritores, novo)
                              ELSE descritores
           /\ UNCHANGED <<modo, DESCRITORES, pcD, excecaoD, vArgs, vLimpar, vSel, vMain, vArq, vLimp,
                          vDev, vPuras, vQual, vRel>>

\* "- n1 n2 ...": remove the descriptors at the listed positions
Remover ==
    \E linha \in Linhas :
       LET entrada == strip_ambos(linha)
           nums == split_palavras(replace_virgula(strip_ambos(Tail(entrada))))
           feito == RemoverTodos(Removidos(nums, descritores), descritores)
       IN  /\ Comando(entrada)
           /\ Head(entrada) = "-"
           /\ IF feito.erro # ""
              THEN /\ pcD' = "erro"
                   /\ excecaoD' = feito.erro
                   /\ UNCHANGED descritores
              ELSE /\ descritores' = feito.lista
                   /\ UNCHANGED <<pcD, excecaoD>>
           /\ UNCHANGED <<modo, DESCRITORES, vArgs, vLimpar, vSel, vMain, vArq, vLimp, vDev, vPuras,
                          vQual, vRel>>

\* "= a; b; ...": replace the whole list unless the new one is empty
Substituir ==
    \E linha \in Linhas :
       LET entrada == strip_ambos(linha)
           novos == Novos(entrada)
       IN  /\ Comando(entrada)
           /\ Head(entrada) = "="
           /\ descritores' = IF novos # <<>> THEN novos ELSE descritores
           /\ UNCHANGED <<modo, DESCRITORES, pcD, excecaoD, vArgs, vLimpar, vSel, vMain, vArq, vLimp,
                          vDev, vPuras, vQual, vRel>>

\* any other line: a warning, and the prompt again
NaoReconhecido ==
    \E linha \in Linhas :
       LET entrada == strip_ambos(linha)
       IN  /\ Comando(entrada)
           /\ Head(entrada) \notin {"+", "-", "="}
           /\ UNCHANGED <<modo, descritores, DESCRITORES, pcD, excecaoD, vArgs, vLimpar, vSel, vMain,
                          vArq, vLimp, vDev, vPuras, vQual, vRel>>

\* executar_coleta(modo_descritores) calls selecionar_descritores
InitDescritores ==
    /\ modo \in {"padrao", "interativo"}
    /\ descritores = <<>>
    /\ DESCRITORES = DESCRITORES_PADRAO
    /\ pcD = "chamada"
    /\ lidas = 0
    /\ excecaoD = ""
    /\ texto_limpo = Pendente
    /\ InitSemSel
    /\ args_fase = << <<"1">> >>
    /\ fases = fases_de(args_fase)
    /\ rawApps = NoFile
    /\ rawReviews = NoFile
    /\ InitResto
    /\ InitSemDev
    /\ InitSemPuras
    /\ InitSemQual

NextDescritores ==
    \/ ChamarDescritores
    \/ FimDaEntrada
    \/ Aceitar
    \/ Adicionar
    \/ Remover
    \/ Substituir
    \/ NaoReconhecido

SpecDescritores == InitDescritores /\ [][NextDescritores]_vars

\* ------------------------------------------------------ executar_selecao

\* DataFrame.empty: no column or no row
empty(d) == d.cols = {} \/ Len(d.rows) = 0

\* pd.read_csv of a file that is there: EmptyDataError on an empty file
read_csv(arq) ==
    IF arq.kind = "blank" THEN [erro |-> "EmptyDataError", df |-> DataFrameVazio]
    ELSE [erro |-> "", df |-> [cols |-> arq.cols, rows |-> arq.rows]]

\* _carregar_limpos(): the newest cleaned tables, or the exception raised
_carregar_limpos ==
    IF cleanApps.kind = "none"
    THEN [erro |-> "FileNotFoundError", df_a |-> DataFrameVazio, df_r |-> DataFrameVazio]
    ELSE IF read_csv(cleanApps).erro # ""
    THEN [erro |-> read_csv(cleanApps).erro, df_a |-> DataFrameVazio,
          df_r |-> DataFrameVazio]
    ELSE IF cleanReviews.kind = "none"
    THEN [erro |-> "", df_a |-> read_csv(cleanApps).df, df_r |-> DataFrameVazio]
    ELSE [erro |-> read_csv(cleanReviews).erro, df_a |-> read_csv(cleanApps).df,
          df_r |-> read_csv(cleanReviews).df]

\* the numbers one token of _parse_entrada adds to indices
IndicesDoToken(tok) ==
    IF \E i \in 1..Len(tok) : tok[i] = "-"
    THEN LET partes == split_por(tok, "-")
         IN  IF Len(partes) = 2 /\ int(partes[1]).ok /\ int(partes[2]).ok
             THEN int(partes[1]).v .. int(partes[2]).v
             ELSE {}
    ELSE IF int(tok).ok THEN {int(tok).v} ELSE {}

\* _parse_entrada with the range check of its last line left out
_parse_entrada_semLimite(entrada, total) ==
    LET tokens == split_palavras(replace_virgula(entrada))
    IN  UNION { IndicesDoToken(tokens[k]) : k \in 1..Len(tokens) }

\* _parse_entrada(entrada, total)
_parse_entrada(entrada, total) ==
    LET tokens == split_palavras(replace_virgula(entrada))
        indices == UNION { IndicesDoToken(tokens[k]) : k \in 1..Len(tokens) }
    IN  { i \in indices : 1 <= i /\ i <= total }

\* df.iloc[[i - 1 for i in sorted(indices)]]: the rows at the positions, in
\* table order
RECURSIVE iloc(_, _)
iloc(rows, indices) ==
    IF rows = <<>> THEN <<>>
    ELSE LET antes == iloc(SubSeq(rows, 1, Len(rows) - 1), indices)
         IN  IF Len(rows) \in indices THEN Append(antes, rows[Len(rows)])
             ELSE antes

\* most calls of executar_selecao in a row
MaxSelecoes == 2

\* most lines typed at the selection prompt in one call
MaxLinhasS == 2

\* the lines typed at "> Sua seleção:"
LinhasS ==
    { <<>>,    \* ''
      <<"1">>,    \* '1'
      <<"2">>,    \* '2'
      <<"1"," ","2">>,    \* '1 2'
      <<"2",",","1">>,    \* '2,1'
      <<"1","-","2">>,    \* '1-2'
      <<"2","-","1">>,    \* '2-1'
      <<"3">>,    \* '3'
      <<"0">>,    \* '0'
      <<"x"," ","2">>,    \* 'x 2'
      <<"1","-","2","-","3">>,    \* '1-2-3'
      <<"-","1">>,    \* '-1'
      <<"e","x","c","l","u","i","r"," ","1">>,    \* 'excluir 1'
      <<"E","X","C","L","U","I","R"," ","2">>,    \* 'EXCLUIR 2'
      <<"e","x","c","l","u","i","r"," ","1"," ","2">>,    \* 'excluir 1 2'
      <<"e","x","c","l","u","i","r"," ","1","-","2">>,    \* 'excluir 1-2'
      <<"e","x","c","l","u","i","r">>,    \* 'excluir'
      <<"e","x","c","l","u","i","r"," ","9">> }    \* 'excluir 9'

\* the lines typed at "Confirmar? [S/n]:"
LinhasConf ==
    { <<>>,    \* ''
      <<"s">>,    \* 's'
      <<" ","S"," ">>,    \* ' S '
      <<"n">>,    \* 'n'
      <<"s","i","m">>,    \* 'sim'
      <<"n","a","o">>,    \* 'nao'
      <<"y","e","s">> }    \* 'yes'

Excluir7 == <<"e","x","c","l","u","i","r">>

\* entrada.lower().startswith("excluir")
ComecaComExcluir(entrada) ==
    Len(entrada) >= 7 /\ SubSeq(lower(entrada), 1, 7) = Excluir7

\* the cleaned app tables of a cleaning run: none, one or two records,
\* largest install count first
TabelasLimpas ==
    { [cols |-> {"appId", "instalacoes_num", "tipo_desenvolvedor"}, rows |-> r] :
        r \in { <<>>, <<AppBase>>, <<AppLimite>>, <<AppBase, AppLimite>> } }

\* the review tables a cleaning run loads: no raw file, a file without
\* reviews, a file with reviews
ReviewsCarregados ==
    { DataFrameVazio, [cols |-> {"appId"}, rows |-> <<>>],
      [cols |-> {"appId"}, rows |-> Reviews] }

\* the two files a cleaning run saves: stage 8 and the two to_csv calls
LimposSalvos ==
    { [apps |-> to_csv(d), reviews |-> to_csv(FiltroReviews(d, r))] :
        d \in TabelasLimpas, r \in ReviewsCarregados }

Modos == {"interativo", "todos", "carregar"}

\* the variables no action of this part changes
vForaSelecao == <<vDesc, vArgs, vLimpar, vMain, vLimp, vDev, vPuras, vQual, vRel,
                  rawApps, rawReviews, relatorio, escritas>>

\* an exception leaves executar_selecao
LevantarNaSelecao(nome) ==
    /\ pcS' = "erro"
    /\ excecaoS' = nome
    /\ UNCHANGED <<modoS, appsSel, reviewsSel, df_apps, df_rev, indices_sel,
                   selecoes, lidasS, dfA, dfB>>

\* the lines after the loop: df_sel, df_rev_sel, the two to_csv calls
GravarSelecao(indices) ==
    LET df_sel == [df_apps EXCEPT !.rows = iloc(df_apps.rows, indices)]
        ids_validos == IF "appId" \in df_sel.cols
                       THEN { df_sel.rows[i].appId : i \in 1..Len(df_sel.rows) }
                       ELSE {}
        df_rev_sel == IF ~ empty(df_rev) /\ "appId" \in df_rev.cols
                      THEN [df_rev EXCEPT !.rows =
                              SelectSeq(df_rev.rows, LAMBDA v : v.appId \in ids_validos)]
                      ELSE df_rev
    IN  /\ indices_sel' = indices
        /\ appsSel' = to_csv(df_sel)
        /\ reviewsSel' = to_csv(df_rev_sel)
        /\ pcS' = "retornou"
        /\ UNCHANGED <<modoS, df_apps, df_rev, excecaoS, selecoes, dfA, dfB>>

\* executar_selecao(modo) up to the prompt: mode "carregar" returns the
\* saved selection, mode "todos" saves every cleaned app, mode
\* "interativo" shows the table
ChamarSelecao ==
    /\ pcS = "chamada"
    /\ IF modoS = "carregar" /\ appsSel.kind # "none"
       THEN IF appsSel.kind = "blank" \/ reviewsSel.kind = "blank"
            THEN LevantarNaSelecao("EmptyDataError")
            ELSE /\ pcS' = "retornou"
                 /\ UNCHANGED <<modoS, appsSel, reviewsSel, df_apps, df_rev,
                                indices_sel, excecaoS, selecoes, lidasS, dfA, dfB>>
       ELSE LET b == _carregar_limpos
            IN  IF b.erro # "" THEN LevantarNaSelecao(b.erro)
                ELSE IF modoS \in {"todos", "carregar"}
                THEN /\ appsSel' = to_csv(b.df_a)
                     /\ reviewsSel' = IF ~ empty(b.df_r) THEN to_csv(b.df_r)
                                      ELSE reviewsSel
                     /\ df_apps' = b.df_a
                     /\ df_rev' = b.df_r
                     /\ pcS' = "retornou"
                     /\ UNCHANGED <<modoS, indices_sel, excecaoS, selecoes, lidasS,
                                    dfA, dfB>>
                ELSE /\ df_apps' = b.df_a
                     /\ df_rev' = b.df_r
                     /\ pcS' = "prompt"
                     /\ UNCHANGED <<modoS, appsSel, reviewsSel, indices_sel,
                                    excecaoS, selecoes, lidasS, dfA, dfB>>
    /\ UNCHANGED <<vForaSelecao, cleanApps, cleanReviews>>

\* an empty line, or EOFError / KeyboardInterrupt: every app, and out of
\* the loop
ManterTodos ==
    /\ pcS = "prompt"
    /\ lidasS' = lidasS + 1
    /\ GravarSelecao(1..Len(df_apps.rows))
    /\ UNCHANGED <<vForaSelecao, cleanApps, cleanReviews>>

\* "excluir n ...": the complement, refused when no number is valid or
\* when nothing would be left
ExcluirApps ==
    /\ pcS = "prompt"
    /\ lidasS < MaxLinhasS
    /\ lidasS' = lidasS + 1
    /\ \E linha \in LinhasS :
          LET entrada == strip_ambos(linha)
              total == Len(df_apps.rows)
              excluir == _parse_entrada(strip_ambos(SubSeq(entrada, 8, Len(entrada))),
                                        total)
          IN  /\ entrada # <<>>
              /\ ComecaComExcluir(entrada)
              /\ IF excluir = {} \/ (1..total) \ excluir = {}
                 THEN UNCHANGED <<modoS, appsSel, reviewsSel, pcS, df_apps, df_rev,
                                  indices_sel, excecaoS, selecoes, dfA, dfB>>
                 ELSE GravarSelecao((1..total) \ excluir)
    /\ UNCHANGED <<vForaSelecao, cleanApps, cleanReviews>>

\* any other line: the positions it names, refused when none is valid,
\* else put to the user for confirmation
IncluirApps ==
    /\ pcS = "prompt"
    /\ lidasS < MaxLinhasS
    /\ lidasS' = lidasS + 1
    /\ \E linha \in LinhasS :
          LET entrada == strip_ambos(linha)
              indices == _parse_entrada(entrada, Len(df_apps.rows))
          IN  /\ entrada # <<>>
              /\ ~ ComecaComExcluir(entrada)
              /\ indices_sel' = indices
              /\ pcS' = IF indices = {} THEN "prompt" ELSE "confirmar"
    /\ UNCHANGED <<vForaSelecao, cleanApps, cleanReviews, modoS, appsSel,
                   reviewsSel, df_apps, df_rev, excecaoS, selecoes, dfA, dfB>>

\* "Confirmar? [S/n]" answered with nothing, s, sim, y or yes, or cut off
\* by EOFError / KeyboardInterrupt: out of the loop
ConfirmarSelecao ==
    /\ pcS = "confirmar"
    /\ UNCHANGED lidasS
    /\ GravarSelecao(indices_sel)
    /\ UNCHANGED <<vForaSelecao, cleanApps, cleanReviews>>

\* any other answer: the prompt again
CancelarSelecao ==
    /\ pcS = "confirmar"
    /\ \E linha \in LinhasConf :
          lower(strip_ambos(linha)) \notin
              {<<>>, <<"s">>, <<"s","i","m">>, <<"y">>, <<"y","e","s">>}
    /\ pcS' = "prompt"
    /\ UNCHANGED <<vForaSelecao, cleanApps, cleanReviews, modoS, appsSel,
                   reviewsSel, df_apps, df_rev, indices_sel, excecaoS, selecoes,
                   lidasS, dfA, dfB>>

\* a later cleaning run replaces the newest cleaned files
OutraLimpeza ==
    /\ pcS \in {"retornou", "erro"}
    /\ selecoes < MaxSelecoes
    /\ \E l \in LimposSalvos :
          /\ cleanApps' = l.apps
          /\ cleanReviews' = l.reviews
          /\ <<cleanApps', cleanReviews'>> # <<cleanApps, cleanReviews>>
    /\ UNCHANGED <<vForaSelecao, vSel>>

\* executar_selecao is called again, in any mode
OutraSelecao ==
    /\ pcS \in {"retornou", "erro"}
    /\ selecoes < MaxSelecoes
    /\ selecoes' = selecoes + 1
    /\ modoS' \in Modos
    /\ pcS' = "chamada"
    /\ df_apps' = DataFrameVazio
    /\ df_rev' = DataFrameVazio
    /\ indices_sel' = {}
    /\ excecaoS' = ""
    /\ lidasS' = 0
    /\ dfA' = NaoLido
    /\ dfB' = NaoLido
    /\ UNCHANGED <<vForaSelecao, cleanApps, cleanReviews, appsSel, reviewsSel>>

\* phase 4A, _carregar(): the newest apps_limpos_*.csv
Carregar4A ==
    /\ pcS \in {"retornou", "erro"}
    /\ dfA = NaoLido
    /\ dfA' = IF cleanApps.kind = "none" THEN [erro |-> "FileNotFoundError"]
              ELSE IF read_csv(cleanApps).erro # ""
              THEN [erro |-> read_csv(cleanApps).erro]
              ELSE [erro |-> "", rows |-> read_csv(cleanApps).df.rows]
    /\ UNCHANGED <<vForaSelecao, cleanApps, cleanReviews, modoS, appsSel,
                   reviewsSel, pcS, df_apps, df_rev, indices_sel, excecaoS,
                   selecoes, lidasS, dfB>>

\* phase 4B: reviews_selecionados.csv when it exists, else the newest
\* reviews_limpos_*.csv
Carregar4B ==
    /\ pcS \in {"retornou", "erro"}
    /\ dfB = NaoLido
    /\ dfB' = IF reviewsSel.kind # "none"
              THEN IF read_csv(reviewsSel).erro # ""
                   THEN [erro |-> read_csv(reviewsSel).erro]
                   ELSE [erro |-> "", rows |-> read_csv(reviewsSel).df.rows]
              ELSE IF cleanReviews.kind = "none"
              THEN [erro |-> "FileNotFoundError"]
              ELSE IF read_csv(cleanReviews).erro # ""
              THEN [erro |-> read_csv(cleanReviews).erro]
              ELSE [erro |-> "", rows |-> read_csv(cleanReviews).df.rows]
    /\ UNCHANGED <<vForaSelecao, cleanApps, cleanReviews, modoS, appsSel,
                   reviewsSel, pcS, df_apps, df_rev, indices_sel, excecaoS,
                   selecoes, lidasS, dfA>>

\* main calls executar_selecao after some cleaning run has saved its files,
\* or after none
InitSelecao ==
    /\ \E l \in LimposSalvos \cup {[apps |-> NoFile, reviews |-> NoFile]} :
          /\ cleanApps = l.apps
          /\ cleanReviews = l.reviews
    /\ modoS \in Modos
    /\ appsSel = NoFile
    /\ reviewsSel = NoFile
    /\ pcS = "chamada"
    /\ df_apps = DataFrameVazio
    /\ df_rev = DataFrameVazio
    /\ indices_sel = {}
    /\ excecaoS = ""
    /\ selecoes = 1
    /\ lidasS = 0
    /\ dfA = NaoLido
    /\ dfB = NaoLido
    /\ InitSemDesc
    /\ texto_limpo = Pendente
    /\ args_fase = << <<"3",".","5">> >>
    /\ fases = fases_de(args_fase)
    /\ rawApps = NoFile
    /\ rawReviews = NoFile
    /\ pc = "1"
    /\ executadas = <<>>
    /\ excecao = ""
    /\ relatorio = NoFile
    /\ escritas = <<>>
    /\ pcL = "inativo"
    /\ df = DataFrameVazio
    /\ df_r = DataFrameVazio
    /\ total_bruto = 0
    /\ total_rev_bruto = 0
    /\ etapas = <<>>
    /\ log = <<>>
    /\ agora = Relogio0
    /\ anterior = Nenhuma
    /\ InitSemDev
    /\ InitSemPuras
    /\ InitSemQual

NextSelecao ==
    \/ ChamarSelecao
    \/ ManterTodos
    \/ ExcluirApps
    \/ IncluirApps
    \/ ConfirmarSelecao
    \/ CancelarSelecao
    \/ OutraLimpeza
    \/ OutraSelecao
    \/ Carregar4A
    \/ Carregar4B

SpecSelecao == InitSelecao /\ [][NextSelecao]_vars

\* ----------------------------------------------------------- properties

\* the cells of a row as the raw file holds them, without derived columns
Bruto(r) == [f \in DOMAIN AppBase |-> r[f]]

BrutoSeq(s) == [i \in 1..Len(s) |-> Bruto(s[i])]

\* k occurs in t, by comparing slices
PalavraEm(k, t) ==
    \E i \in 1..(Len(t) - Len(k) + 1) : SubSeq(t, i, i + Len(k) - 1) = k

\* some keyword of the list occurs in the text, letter case aside
ContemPalavra(texto, lista) ==
    \E n \in 1..Len(lista) : PalavraEm(lower(lista[n]), lower(texto))

\* effective install count of a record: the real installs when present
\* and above 0, else the declared minimum when present, else 0
InstalacoesEfetivas(r) ==
    LET real == to_numeric(r.realInstalls)
        minimo == to_numeric(r.minInstalls)
    IN  IF real # Nulo /\ real > 0 THEN real
        ELSE IF minimo # Nulo THEN minimo
        ELSE 0

\* resolved update timestamp of a record: the primary field when it
\* parses, else the textual date when it parses, else none
Resolvido(r) ==
    LET p == to_datetime_s(r.updated)
        t == to_datetime_texto(r.lastUpdatedOn)
    IN  IF p # Nulo THEN p ELSE IF t # Nulo THEN t ELSE Nulo

RecenteOBastante(r) ==
    Resolvido(r) # Nulo /\ Resolvido(r) >= DATA_CORTE_ATUALIZACAO

\* name, summary and description one after the other, nothing in between
Concatenado(r) ==
    fillna_str(r.title) \o fillna_str(r.summary) \o fillna_str(r.description)

\* name, summary and description joined with single spaces
JuntadoComEspacos(r) ==
    fillna_str(r.title) \o <<" ">> \o fillna_str(r.summary) \o <<" ">>
        \o fillna_str(r.description)

SemExclusao(r) == ~ContemPalavra(fillna_str(r.title), KEYWORDS_EXCLUSAO_TITULO)

\* the audit entries of a trail never grow, entry by entry and end to end
NaoCresce(trilha) ==
    /\ \A i \in 1..Len(trilha) : trilha[i][3] <= trilha[i][2]
    /\ \A i \in 1..(Len(trilha) - 1) : trilha[i + 1][2] <= trilha[i][3]

\* C1: in every cleaning run each audit entry (name, before, after) has
\* after <= before, and the counts never increase from the first stage to
\* the last, in the trail kept in memory and in the one the report holds.
C1_AuditoriaNaoCresce ==
    /\ NaoCresce(etapas)
    /\ relatorio.kind = "txt" => NaoCresce(relatorio.etapas)

\* C1: a finished run with all five entries, a stage that removed a record
\* and a record that survived
C1_Witness ==
    /\ pcL = "retornou"
    /\ Len(etapas) = 5
    /\ \E i \in 1..5 : etapas[i][3] < etapas[i][2]
    /\ etapas[5][3] > 0
    /\ relatorio.kind = "txt"

\* the positions of the raw table that hold the first record of their
\* identifier and satisfy every given predicate
Sobreviventes(instalacoesOk(_)) ==
    { i \in 1..Len(rawApps.rows) :
        LET r == rawApps.rows[i]
        IN  /\ \A j \in 1..(i - 1) : rawApps.rows[j].appId # r.appId
            /\ r.genreId \in CATEGORIAS_ALVO
            /\ instalacoesOk(r)
            /\ RecenteOBastante(r)
            /\ ContemPalavra(JuntadoComEspacos(r), KEYWORDS_INCLUSAO)
            /\ SemExclusao(r) }

\* the returned table holds exactly the records at the given positions
SaidaIgual(posicoes) ==
    /\ { Bruto(df.rows[i]) : i \in 1..Len(df.rows) }
          = { rawApps.rows[i] : i \in posicoes }
    /\ Len(df.rows) = Cardinality(posicoes)

\* C2: the apps a cleaning run outputs are the first record of each
\* identifier that satisfies all stage predicates together (category in
\* the allow-set, effective installs >= threshold, resolved update
\* timestamp >= cutoff, relevance test), and the count after the stages
\* in sequence is the count of that conjunction.
C2_SequenciaIgualConjuncao ==
    pcL = "retornou" =>
        SaidaIgual(Sobreviventes(LAMBDA r : InstalacoesEfetivas(r) >= MIN_INSTALACOES))

\* the same with the install predicate as the install stage computes it
ComposicaoDasEtapas ==
    pcL = "retornou" =>
        SaidaIgual(Sobreviventes(
            LAMBDA r : instalacoes_num(rawApps.cols, r) >= MIN_INSTALACOES))

UnicosERecentes(rows) ==
    /\ \A i, j \in 1..Len(rows) : i # j => rows[i].appId # rows[j].appId
    /\ \A i \in 1..Len(rows) :
          /\ InstalacoesEfetivas(rows[i]) >= MIN_INSTALACOES
          /\ rows[i].instalacoes_num >= MIN_INSTALACOES
          /\ RecenteOBastante(rows[i])
          /\ rows[i].updated_dt >= DATA_CORTE_ATUALIZACAO

\* C3: in the app table a cleaning run returns and saves no two records
\* share an identifier, every record has effective installs >=
\* MIN_INSTALACOES and a resolved update timestamp >= DATA_CORTE_ATUALIZACAO.
C3_TabelaLimpa ==
    /\ pcL = "retornou" => UnicosERecentes(df.rows)
    /\ (pcL \in {"relatorio", "log", "retornou"} /\ cleanApps.kind = "csv")
          => UnicosERecentes(cleanApps.rows)

\* C3: a saved table of two records, one exactly at both thresholds, from
\* a run whose first stage removed a duplicate or whose filters removed none
C3_Witness ==
    /\ pcL = "retornou"
    /\ cleanApps.kind = "csv"
    /\ Len(cleanApps.rows) = 2
    /\ \E i \in 1..2 :
          /\ cleanApps.rows[i].instalacoes_num = MIN_INSTALACOES
          /\ cleanApps.rows[i].updated_dt = DATA_CORTE_ATUALIZACAO

\* the raw reviews of the apps that survived
ReviewsDosSobreviventes ==
    LET ids == { df.rows[i].appId : i \in 1..Len(df.rows) }
        brutas == IF rawReviews.kind = "csv" THEN rawReviews.rows ELSE <<>>
    IN  SelectSeq(brutas, LAMBDA v : v.appId \in ids)

\* C4: the review table a cleaning run outputs is exactly the raw reviews
\* whose app identifier is among the surviving apps, returned and saved.
C4_CascataReviews ==
    pcL = "retornou" =>
        /\ df_r.rows = ReviewsDosSobreviventes
        /\ cleanReviews.kind = "csv" => cleanReviews.rows = ReviewsDosSobreviventes
        /\ cleanReviews.kind # "csv" => ReviewsDosSobreviventes = <<>>

\* C4: a finished run that kept some reviews and dropped others
C4_Witness ==
    /\ pcL = "retornou"
    /\ Len(df_r.rows) > 0
    /\ Len(df_r.rows) < total_rev_bruto
    /\ cleanReviews.kind = "csv"

\* C5: the developer classifier returns exactly one of the three
\* categories: Commercial for an absent name; otherwise Governmental when
\* the lowercased name holds a Governmental keyword, whether or not it
\* holds an Institutional one; otherwise Institutional when it holds an
\* Institutional keyword; otherwise Commercial.
C5_Classificador ==
    tipo # "" =>
        /\ tipo \in {"Governamental", "Institucional", "Comercial"}
        /\ dev = NaN => tipo = "Comercial"
        /\ dev # NaN =>
              LET gov == ContemPalavra(dev, _KEYWORDS_GOVERNO)
                  inst == ContemPalavra(dev, _KEYWORDS_INST)
              IN  /\ gov => tipo = "Governamental"
                  /\ (~gov /\ inst) => tipo = "Institucional"
                  /\ (~gov /\ ~inst) => tipo = "Comercial"

\* C5: a name with a keyword of each list, classified
C5_Witness ==
    /\ tipo = "Governamental"
    /\ dev # NaN
    /\ ContemPalavra(dev, _KEYWORDS_GOVERNO)
    /\ ContemPalavra(dev, _KEYWORDS_INST)

\* C6: the install stage gives every record its effective install count
\* (real installs when present and above 0, else the declared minimum
\* when present, else 0) and keeps a record exactly when that count is
\* >= the threshold.
C6_InstalacoesEfetivas ==
    [][ (pcL = "instalacoes" /\ pcL' = "atualizacao") =>
          df'.rows = SelectSeq(
              [i \in 1..Len(df.rows) |->
                  df.rows[i] @@ [instalacoes_num |-> InstalacoesEfetivas(df.rows[i])]],
              LAMBDA r : r.instalacoes_num >= MIN_INSTALACOES) ]_vars

\* C7: the update stage resolves each record's timestamp to the primary
\* field when it parses, else to the textual date when it parses, else to
\* none; it drops a record without one, keeps one with a timestamp exactly
\* when it is >= the cutoff, and never raises.
C7_DataDeAtualizacao ==
    [][ pcL = "atualizacao" =>
          /\ pcL' = "relevancia"
          /\ excecao' = ""
          /\ BrutoSeq(df'.rows) = SelectSeq(BrutoSeq(df.rows), RecenteOBastante)
          /\ \A i \in 1..Len(df'.rows) :
                df'.rows[i].updated_dt = Resolvido(df'.rows[i]) ]_vars

\* C7: after the update stage, a record kept through its textual date and
\* another record dropped
C7_Witness ==
    /\ pcL = "relevancia"
    /\ Len(etapas) = 4
    /\ etapas[4][3] < etapas[4][2]
    /\ \E i \in 1..Len(df.rows) : to_datetime_s(df.rows[i].updated) = Nulo

\* a step of the relevance stage that keeps exactly the records whose
\* given text holds an inclusion keyword and whose name holds no exclusion
\* keyword
EtapaRelevanciaSobre(texto(_)) ==
    (pcL = "relevancia" /\ pcL' # pcL) =>
        /\ pcL' = "desenvolvedor"
        /\ df'.rows = SelectSeq(df.rows,
              LAMBDA r : /\ ContemPalavra(texto(r), KEYWORDS_INCLUSAO)
                         /\ SemExclusao(r))

\* C8 as stated: the relevance stage keeps a record exactly when the
\* concatenation of its name, summary and description holds an inclusion
\* keyword and its name holds no exclusion keyword; containment is
\* case-insensitive containment of the whole keyword, a missing field is
\* empty text.
C8_RelevanciaConcatenada == [][EtapaRelevanciaSobre(Concatenado)]_vars

\* C8, amended: the same, over name, summary and description joined with
\* single spaces.
C8_RelevanciaComEspacos == [][EtapaRelevanciaSobre(JuntadoComEspacos)]_vars

\* C8: after the relevance stage, a record kept only because the space
\* after its name completes a keyword, and another record dropped
C8_Witness ==
    /\ pcL = "desenvolvedor"
    /\ Len(etapas) = 5
    /\ etapas[5][3] < etapas[5][2]
    /\ \E i \in 1..Len(df.rows) :
          ~ContemPalavra(Concatenado(df.rows[i]), KEYWORDS_INCLUSAO)

\* C9: a run that loaded a raw app table of zero records fails before any
\* filter stage runs and before any cleaned table or report is written.
C9_EntradaVaziaFalha ==
    (rawApps.kind = "csv" /\ Len(rawApps.rows) = 0 /\ pcL \notin {"inativo", "carregar"}) =>
        /\ pcL = "excecao"
        /\ etapas = <<>>
        /\ cleanApps = NoFile
        /\ cleanReviews = NoFile
        /\ relatorio = NoFile

Limpos == {"apps_limpos", "reviews_limpos", "relatorio_limpeza"}

\* C10: when the cleaning phase finds no raw apps file it raises before
\* it writes a cleaned app table, a cleaned review table or a report, and
\* main calls none of the later selected phases.
C10_SemArquivoBruto ==
    (rawApps.kind = "none" /\ pcL \notin {"inativo", "carregar"}) =>
        /\ pcL = "excecao"
        /\ excecao = "FileNotFoundError"
        /\ pc = "erro"
        /\ cleanApps = NoFile /\ cleanReviews = NoFile /\ relatorio = NoFile
        /\ \A i \in 1..Len(escritas) : escritas[i] \notin Limpos
        /\ executadas[Len(executadas)] = "3"

\* C10: the phase raised for want of a raw apps file while later phases
\* were selected
C10_Witness ==
    /\ pcL = "excecao"
    /\ rawApps.kind = "none"
    /\ excecao = "FileNotFoundError"
    /\ {"3.5", "4a", "4b"} \subseteq fases

\* the statements of executar_limpeza that come after the five filter stages
DepoisDosFiltros ==
    {"desenvolvedor", "ordenar", "reviews", "salvar", "relatorio", "log", "retornou"}

\* the stage after the one that wrote audit entry i has begun
EtapaSeguinteComecou(i) ==
    \/ i < Len(etapas)
    \/ i = 5 /\ pcL \in DepoisDosFiltros \ {"desenvolvedor"}

\* C11: when a filter stage leaves zero records, the log holds that
\* stage's line by the time a later stage starts.
C11_ZeroRelatadoAntes ==
    \A i \in 1..Len(etapas) :
        (etapas[i][3] = 0 /\ EtapaSeguinteComecou(i)) =>
            \E k \in 1..Len(log) : log[k] = <<"etapa">> \o etapas[i]

\* C12: a finished cleaning run has one audit entry for each of the eight
\* stages, the first starting from the raw app count and each later one
\* from the count the previous entry ended with.
C12_OitoEntradas ==
    pcL = "retornou" =>
        /\ Len(etapas) = 8
        /\ etapas[1][2] = total_bruto
        /\ \A i \in 1..(Len(etapas) - 1) : etapas[i + 1][2] = etapas[i][3]

\* the part of C12 that the five entries satisfy: the first starts from the
\* raw count, each starts where the previous ended, and a step only appends
CincoEntradasEncadeadas ==
    /\ Len(etapas) > 0 => etapas[1][2] = total_bruto
    /\ \A i \in 1..(Len(etapas) - 1) : etapas[i + 1][2] = etapas[i][3]
    /\ Len(etapas) <= 5

SoAcrescenta ==
    [][ \/ pcL = "carregar"
        \/ pcL' = "inativo"
        \/ /\ Len(etapas') >= Len(etapas)
           /\ SubSeq(etapas', 1, Len(etapas)) = etapas ]_vars

\* the positions, in the configuration, of the axes with a keyword in t
EixosQueCasam(t) ==
    { a \in 1..Len(EIXOS_TEMATICOS) :
        \E n \in 1..Len(EIXOS_TEMATICOS[a].keywords) :
            PalavraEm(EIXOS_TEMATICOS[a].keywords[n], t) }

\* the position of an axis name in the configuration
PosicaoDoEixo(nome) ==
    CHOOSE a \in 1..Len(EIXOS_TEMATICOS) : EIXOS_TEMATICOS[a].eixo = nome

\* C13: the thematic classifier returns a non-empty list without
\* duplicates that holds exactly the axes with a keyword occurring in the
\* text, in the order the configuration declares them; with no such axis
\* the list is the single label "Outros", which never comes with an axis.
C13_EixosNaOrdem ==
    eixos # <<>> =>
        LET casam == EixosQueCasam(txt)
        IN  /\ \A i, j \in 1..Len(eixos) : i # j => eixos[i] # eixos[j]
            /\ casam = {} => eixos = <<"Outros">>
            /\ casam # {} =>
                  /\ \A i \in 1..Len(eixos) : eixos[i] # "Outros"
                  /\ { eixos[i] : i \in 1..Len(eixos) }
                        = { EIXOS_TEMATICOS[a].eixo : a \in casam }
                  /\ \A i, j \in 1..Len(eixos) :
                        i < j => PosicaoDoEixo(eixos[i]) < PosicaoDoEixo(eixos[j])

\* C13: a text classified under two or more axes
C13_Witness ==
    /\ Len(eixos) >= 2
    /\ Cardinality(EixosQueCasam(txt)) >= 2

\* C14: "erro ao sincronizar dados, travando sempre" is classified under
\* exactly the interoperability axis followed by the functionality and
\* stability axis.
C14_ExemploDoisEixos ==
    (txt = <<"e","r","r","o"," ","a","o"," ","s","i","n","c","r","o","n","i","z","a","r"," ","d","a","d","o","s",","," ","t","r","a","v","a","n","d","o"," ","s","e","m","p","r","e">> /\ eixos # <<>>) =>
        eixos = << "Interoperabilidade e Integracao de Dados",
                   "Funcionalidade e Estabilidade Tecnica" >>

\* a word stands in the text between whitespace or the ends of the text
EhToken(w, t) == PalavraEm(<<" ">> \o w \o <<" ">>, <<" ">> \o t \o <<" ">>)

\* the distinct tokens of the text that belong to a lexicon
TokensNoLexico(t, lexico) == { w \in lexico : EhToken(w, t) }

\* C15: the sentiment label depends on the adjusted score alone, with
\* strict thresholds: Positive exactly above 0.05, Negative exactly below
\* -0.05, Neutral otherwise, 0.05 and -0.05 included; one label per input.
C15_LimiaresEstritos ==
    sent # <<>> =>
        /\ sent[1] \in {"Positivo", "Negativo", "Neutro"}
        /\ sent[1] = "Positivo" <=> sent[2] > LIMIAR
        /\ sent[1] = "Negativo" <=> sent[2] < -LIMIAR
        /\ sent[1] = "Neutro" <=> (sent[2] >= -LIMIAR /\ sent[2] <= LIMIAR)

\* C15: an adjusted score of exactly 0.05 reached through the lexicon
\* adjustment, labelled Neutral
C15_Witness ==
    /\ sent = <<"Neutro", LIMIAR>>
    /\ pol # LIMIAR

\* the polarity the scorer is to return for the text and the base polarity
Ajustada(t, base) ==
    LET p == Cardinality(TokensNoLexico(t, _POSITIVAS))
        n == Cardinality(TokensNoLexico(t, _NEGATIVAS))
        soma == base + AJUSTE * (p - n)
    IN  IF soma > Unidade THEN Unidade
        ELSE IF soma < -Unidade THEN -Unidade
        ELSE soma

\* C16: the polarity returned is clamp(base + 0.15 * (p - n), -1, 1), within
\* [-1, 1], with p and n the numbers of distinct tokens of the text in the
\* positive and in the negative lexicon; base 0.0 with two positive tokens
\* and no negative one gives 0.30 and Positive.
C16_PolaridadeAjustada ==
    sent # <<>> =>
        /\ sent[2] = Ajustada(txt, pol)
        /\ sent[2] >= -Unidade /\ sent[2] <= Unidade
        /\ ( /\ pol = 0
             /\ Cardinality(TokensNoLexico(txt, _POSITIVAS)) = 2
             /\ TokensNoLexico(txt, _NEGATIVAS) = {} )
              => sent = <<"Positivo", 2 * AJUSTE>>

\* C16: a text that repeats one positive token, scored from base 0.0 with
\* a single adjustment
C16_Witness ==
    /\ sent = <<"Positivo", AJUSTE>>
    /\ pol = 0
    /\ Cardinality(Ocorrencias(txt, _POSITIVAS)) = 2

\* a sum beyond 1.0, returned as 1.0
PolaridadeNoLimite ==
    /\ sent # <<>>
    /\ sent[2] = Unidade
    /\ pol + AJUSTE * Cardinality(TokensNoLexico(txt, _POSITIVAS)) > Unidade

\* the minimum length of a text that is classified
MINIMO_CARACTERES == 10

\* the statements of the qualitative phase after the sentiment step
DepoisDoSentimento == {"tematica", "cruzar", "lda", "salvar", "retornou"}

\* the reviews of the input file that have a text
ComTexto == SelectSeq(entradaQ.rows, LAMBDA r : r.content # NaN)

\* the columns of a row that the input file holds
Entrada(r) == [appId |-> r.appId, content |-> r.content, pol |-> r.pol]

\* C17: a review is classified exactly when its normalized text has at
\* least 10 characters; exactly 10 characters is classified.
C17_MinimoDezCaracteres ==
    pcQ \in DepoisDoSentimento =>
        [i \in 1..Len(dfQ) |-> Entrada(dfQ[i])]
            = SelectSeq(ComTexto,
                  LAMBDA r : Len(_limpar(r.content)) >= MINIMO_CARACTERES)

\* C18: a review whose normalized text is shorter than the minimum is in
\* the annotated table the phase returns and saves.
C18_CurtoMantido ==
    pcQ = "retornou" =>
        \A i \in 1..Len(ComTexto) :
            Len(_limpar(ComTexto[i].content)) < MINIMO_CARACTERES =>
                /\ \E k \in 1..Len(dfQ) : Entrada(dfQ[k]) = ComTexto[i]
                /\ \E k \in 1..Len(anotados.rows) :
                      Entrada(anotados.rows[k]) = ComTexto[i]

\* every label the classifier can give
Rotulos ==
    { EIXOS_TEMATICOS[a].eixo : a \in 1..Len(EIXOS_TEMATICOS) } \cup {"Outros"}

Sentimentos == {"Positivo", "Negativo", "Neutro"}

\* the classified reviews whose label list holds the label
ReviewsDoEixo(e) ==
    { i \in 1..Len(temas) : \E k \in 1..Len(temas[i]) : temas[i][k] = e }

\* the mention count the thematic distribution gives a label
Mencoes(e) == IF e \in DOMAIN tab_t.freq THEN tab_t.freq[e] ELSE 0

\* the count the cross-tabulation gives a label and a sentiment
Cruzado(e, sn) ==
    IF cross.kind = "csv" /\ e \in DOMAIN cross.freq /\ sn \in DOMAIN cross.freq[e]
    THEN cross.freq[e][sn]
    ELSE 0

\* C19: the mention count of each label is the number of classified
\* reviews whose list holds the label; the cross-tabulation counts each
\* such review once, under its own sentiment, so a label's row sums to its
\* mention count.
C19_ContagemPorEixo ==
    pcQ \in {"lda", "salvar", "retornou"} =>
        \A e \in Rotulos :
            /\ Mencoes(e) = Cardinality(ReviewsDoEixo(e))
            /\ \A sn \in Sentimentos :
                  Cruzado(e, sn)
                     = Cardinality({ i \in ReviewsDoEixo(e) : dfQ[i].sentimento = sn })
            /\ Cruzado(e, "Positivo") + Cruzado(e, "Negativo") + Cruzado(e, "Neutro")
                  = Mencoes(e)

\* C19: two classified reviews of different sentiment, one of them under
\* three axes, tabulated
C19_Witness ==
    /\ pcQ = "retornou"
    /\ cross.kind = "csv"
    /\ Len(dfQ) = 2
    /\ dfQ[1].sentimento # dfQ[2].sentimento
    /\ \E i \in 1..2 : Len(temas[i]) = 3

\* ---------------------------------------------------------------- C20

\* two cleaning runs, of two invocations, have both returned, and the second
\* read the raw tables the first read
DuasRodadasMesmaEntrada ==
    /\ anterior.pcL = "retornou"
    /\ pcL = "retornou"
    /\ rawApps = anterior.apps
    /\ rawReviews = anterior.reviews

\* the two runs left the same audit trail and the same survivors
MesmoResultado ==
    /\ etapas = anterior.etapas
    /\ {df.rows[i].appId : i \in 1..Len(df.rows)} = anterior.ids
    /\ {df_r.rows[i] : i \in 1..Len(df_r.rows)} = anterior.revs

\* C20: two cleaning runs over the same raw input and the same configuration
\* constants leave the same audit trail (stage names with before and after
\* counts) and the same surviving apps and reviews, whenever they are run
C20_Reprodutivel == DuasRodadasMesmaEntrada => MesmoResultado

\* the two runs differ only where the clock read at import differs
MesmoRelogioMesmoResultado ==
    (DuasRodadasMesmaEntrada /\ agora = anterior.agora) => MesmoResultado

\* two runs over the same raw input, a day apart, have both returned
DuasRodadasUmDiaDepois ==
    DuasRodadasMesmaEntrada /\ agora = anterior.agora + SegundosPorDia

\* ---------------------------------------------------------------- C21

\* C21: once src/config.py is loaded no phase changes a configuration value:
\* when selecionar_descritores has returned, DESCRITORES still is the list
\* it was at load, list(DESCRITORES_PADRAO)
C21_ConfiguracaoIntacta ==
    pcD = "retornou" => DESCRITORES = DESCRITORES_PADRAO

\* mode "padrao" returns before DESCRITORES is touched
PadraoNaoAltera ==
    (pcD = "retornou" /\ modo = "padrao") => DESCRITORES = DESCRITORES_PADRAO

\* ---------------------------------------------------------------- C28

\* the positions 1..len(lista) named by the tokens of a remove command
PosicoesValidas(nums, lista) ==
    { int(nums[i]).v : i \in { j \in 1..Len(nums) :
                                 /\ int(nums[j]).ok
                                 /\ int(nums[j]).v \in 1..Len(lista) } }

\* lista without the elements at the given positions
RECURSIVE SemPosicoes(_, _)
SemPosicoes(lista, pos) ==
    IF lista = <<>> THEN <<>>
    ELSE LET antes == SemPosicoes(SubSeq(lista, 1, Len(lista) - 1), pos)
         IN  IF Len(lista) \in pos THEN antes
             ELSE Append(antes, lista[Len(lista)])

\* the input lines that are remove commands
LinhasDeRemocao ==
    { linha \in Linhas : strip_ambos(linha) # <<>> /\ Head(strip_ambos(linha)) = "-" }

\* the tokens after the "-" of a remove command
Numeros(linha) ==
    split_palavras(replace_virgula(strip_ambos(Tail(strip_ambos(linha)))))

\* C28: at the prompt, whatever the current list, every remove command
\* "- n1 n2 ..." raises nothing and leaves exactly the list without the
\* descriptors at its valid positions (other tokens ignored, positions
\* possibly repeated)
C28_RemoverPelasPosicoes ==
    pcD = "prompt" =>
        \A linha \in LinhasDeRemocao :
            LET removidos == Removidos(Numeros(linha), descritores)
                feito == RemoverTodos(removidos, descritores)
            IN  /\ feito.erro = ""
                /\ feito.lista =
                       SemPosicoes(descritores,
                                   PosicoesValidas(Numeros(linha), descritores))

\* the same, for the commands that name no position twice
SemRepeticao(nums) ==
    \A i, j \in 1..Len(nums) :
        (i # j /\ int(nums[i]).ok /\ int(nums[j]).ok) => int(nums[i]).v # int(nums[j]).v

RemoverSemRepeticao ==
    pcD = "prompt" =>
        \A linha \in { l \in LinhasDeRemocao : SemRepeticao(Numeros(l)) } :
            LET feito == RemoverTodos(Removidos(Numeros(linha), descritores),
                                      descritores)
            IN  /\ feito.erro = ""
                /\ \A d \in { feito.lista[i] : i \in 1..Len(feito.lista) } :
                       Em(d, SemPosicoes(descritores,
                                  PosicoesValidas(Numeros(linha), descritores)))
                /\ Len(feito.lista) =
                       Len(descritores)
                         - Cardinality(PosicoesValidas(Numeros(linha), descritores))

\* ---------------------------------------------------------------- C30

\* C30: the list selecionar_descritores returns, and leaves in DESCRITORES
\* for the collection, is never empty
C30_ListaNaoVazia ==
    pcD = "retornou" => descritores # <<>>

\* ---------------------------------------------------------------- C22

\* the place of a phase in the fixed order
Lugar(f) == CHOOSE i \in 1..Len(Ordem) : Ordem[i] = f

\* the phases the user asked for: every phase when --fase is omitted, else
\* the phases named by some value of the argument, letter case ignored
Pedidas ==
    IF args_fase = <<>> THEN { Ordem[i] : i \in 1..Len(Ordem) }
    ELSE { Ordem[i] : i \in { j \in 1..Len(Ordem) :
              \E k \in 1..Len(args_fase) :
                  Texto(lower(args_fase[k])) = Ordem[j] } }

\* Ordem restricted to the phases asked for
PedidasNaOrdem == SelectSeq(Ordem, LAMBDA f : f \in Pedidas)

\* C22: the phases main has called are phases asked for, in the fixed order
\* 1, 2.5, 3, 3.5, 4A, 4B, 5, 6 and each at most once, whatever the order and
\* letter case of the --fase values; a run that reaches its end has called
\* all of them; with --fase omitted all eight are asked for
C22_OrdemDasFases ==
    /\ \A i \in 1..Len(executadas) : executadas[i] \in Pedidas
    /\ \A i, j \in 1..Len(executadas) :
          i < j => Lugar(executadas[i]) < Lugar(executadas[j])
    /\ pc = "fim" => executadas = PedidasNaOrdem
    /\ args_fase = <<>> => Cardinality(Pedidas) = 8

\* a phase starts only when no cleaning run is under way
UmaFasePorVez ==
    [][ executadas' # executadas /\ executadas' # <<>>
          => pcL \in {"inativo", "retornou"} ]_vars

\* C22: a run given its phases out of order and in upper case has called
\* four of them, in the fixed order, and reached its end
C22_Witness ==
    /\ pc = "fim"
    /\ args_fase = << <<"3",".","5">>, <<"3">>, <<"4","b">>, <<"4","A">> >>
    /\ executadas = <<"3", "3.5", "4a", "4b">>

\* a run with --fase omitted has called all eight phases
TodasAsOito ==
    /\ pc = "fim"
    /\ args_fase = <<>>
    /\ Len(executadas) = 8

\* ---------------------------------------------------------------- C24

\* the records of rows that no earlier record shares the identifier of
RECURSIVE PrimeirosPorId(_)
PrimeirosPorId(rows) ==
    IF rows = <<>> THEN <<>>
    ELSE LET n == Len(rows)
             antes == SubSeq(rows, 1, n - 1)
         IN  IF \E j \in 1..(n - 1) : rows[j].appId = rows[n].appId
             THEN PrimeirosPorId(antes)
             ELSE Append(PrimeirosPorId(antes), rows[n])

\* C24: the deduplication stage leaves, for each identifier, exactly the
\* first record with it in input order, and applied to its own output it
\* removes nothing
C24_PrimeiraOcorrencia ==
    [][ (pcL = "duplicatas" /\ pcL' = "categoria") =>
          /\ df'.rows = PrimeirosPorId(df.rows)
          /\ Duplicatas(df') = df'
          /\ Len(Duplicatas(df').rows) = Len(df'.rows) ]_vars

\* C24: the stage has removed the second record of an identifier, the first
\* of whose records sits in a different category
C24_Witness ==
    /\ pcL = "categoria"
    /\ rawApps.kind = "csv"
    /\ rawApps.rows = <<AppBase, AppDuplicado>>
    /\ BrutoSeq(df.rows) = <<AppBase>>

\* ---------------------------------------------------------------- C25

\* q holds the records of p, each as often as p does
Permutacao(p, q) ==
    /\ Len(p) = Len(q)
    /\ \E f \in [1..Len(p) -> 1..Len(p)] :
          /\ \A i, j \in 1..Len(p) : i # j => f[i] # f[j]
          /\ \A i \in 1..Len(p) : q[i] = p[f[i]]

\* effective install counts never increase down the table
Decrescente(rows) ==
    \A i \in 1..(Len(rows) - 1) :
        InstalacoesEfetivas(rows[i]) >= InstalacoesEfetivas(rows[i + 1])

\* C25: the developer-category and sort stages add and remove no record: the
\* table after them is a permutation of the table the relevance stage left,
\* and the table returned and saved is in non-increasing order of effective
\* install count
C25_PermutacaoOrdenada ==
    [][ /\ (pcL = "desenvolvedor" /\ pcL' = "ordenar") =>
              BrutoSeq(df'.rows) = BrutoSeq(df.rows)
        /\ (pcL = "ordenar" /\ pcL' = "reviews") =>
              /\ Permutacao(df.rows, df'.rows)
              /\ Decrescente(df'.rows)
        /\ (pcL \in {"reviews", "salvar", "relatorio", "log"}
              /\ pcL' \in {"salvar", "relatorio", "log", "retornou"}) =>
              /\ df' = df
              /\ Decrescente(df.rows)
        /\ (pcL = "salvar" /\ pcL' = "relatorio") =>
              /\ cleanApps'.kind = "csv" => cleanApps'.rows = df.rows ]_vars

\* C25: a run has returned two records with different install counts, the
\* larger first, that the raw file held in the other order
C25_Witness ==
    /\ pcL = "retornou"
    /\ Len(df.rows) = 2
    /\ rawApps.kind = "csv"
    /\ Len(rawApps.rows) = 2
    /\ Bruto(df.rows[1]) = Bruto(rawApps.rows[2])
    /\ InstalacoesEfetivas(df.rows[1]) > InstalacoesEfetivas(df.rows[2])

\* ---------------------------------------------------------------- C26

\* only letters of the accepted alphabet, separated by single blanks, with
\* no blank at either end
Normalizado(t) ==
    /\ \A i \in 1..Len(t) : t[i] \in Letras \cup {" "}
    /\ \A i \in 1..(Len(t) - 1) : ~ (t[i] = " " /\ t[i + 1] = " ")
    /\ t # <<>> => (t[1] # " " /\ t[Len(t)] # " ")

\* C26: whatever the input, _limpar returns a text of lowercase letters of
\* its alphabet separated by single blanks, without a blank at either end
\* (possibly empty), and _limpar of such a returned text is that text
C26_TextoNormalizado ==
    [][ texto_limpo' # Pendente =>
          /\ Normalizado(texto_limpo')
          /\ texto_limpo # Pendente => texto_limpo' = texto_limpo ]_vars

\* C26: a text with an upper-case accented letter, a digit and a word came
\* back as two words, and normalizing it again has left it as it was
C26_Witness ==
    /\ txt = <<"A'", "1", "o", "k">>
    /\ texto_limpo = <<"a'", " ", "o", "k">>

\* ---------------------------------------------------------------- C23

\* both selection files are there
HaSelecao == appsSel.kind = "csv" /\ reviewsSel.kind = "csv"

\* C23: when apps_selecionados.csv and reviews_selecionados.csv exist, the
\* table phase 4A analyses is the selected apps and the table phase 4B
\* analyses is the selected reviews
C23_AnaliseDaSelecao ==
    HaSelecao =>
        /\ dfA # NaoLido => (dfA.erro = "" /\ dfA.rows = appsSel.rows)
        /\ dfB # NaoLido => (dfB.erro = "" /\ dfB.rows = reviewsSel.rows)

\* phase 4B alone does read the selected reviews
QualitativaUsaSelecao ==
    (HaSelecao /\ dfB # NaoLido) => (dfB.erro = "" /\ dfB.rows = reviewsSel.rows)

\* phase 4A has loaded two apps although one was selected
QuantitativaIgnoraSelecao ==
    /\ HaSelecao
    /\ dfA # NaoLido
    /\ dfA.erro = ""
    /\ Len(dfA.rows) = 2
    /\ Len(appsSel.rows) = 1

\* ---------------------------------------------------------------- C27

\* the positions an "excluir" line leaves, when it is accepted
DeixadasPorExcluir(linha, total) ==
    LET entrada == strip_ambos(linha)
    IN  (1..total) \ _parse_entrada(SubSeq(entrada, 8, Len(entrada)), total)

\* C27: with at least one cleaned app, a step of the interactive selection
\* either stays in the loop and writes no file, or ends it with a
\* non-empty set of positions within 1..total and writes the apps at those
\* positions; straight from the prompt the set is every position (empty
\* line or end of input) or the non-empty complement of an "excluir" line,
\* and an explicit inclusion ends the loop only from the confirmation
C27_SelecaoInterativa ==
    [][ (pcS \in {"prompt", "confirmar"} /\ Len(df_apps.rows) >= 1) =>
          LET total == Len(df_apps.rows)
          IN  /\ pcS' \in {"prompt", "confirmar", "retornou"}
              /\ pcS' # "retornou" =>
                    /\ appsSel' = appsSel
                    /\ reviewsSel' = reviewsSel
              /\ pcS' = "confirmar" =>
                    /\ pcS = "prompt"
                    /\ indices_sel' # {}
                    /\ indices_sel' \subseteq 1..total
              /\ pcS' = "retornou" =>
                    /\ indices_sel' # {}
                    /\ indices_sel' \subseteq 1..total
                    /\ appsSel'.kind = "csv"
                    /\ appsSel'.rows = iloc(df_apps.rows, indices_sel')
                    /\ pcS = "confirmar" => indices_sel' = indices_sel
                    /\ pcS = "prompt" =>
                          \/ indices_sel' = 1..total
                          \/ \E linha \in LinhasS :
                                /\ ComecaComExcluir(strip_ambos(linha))
                                /\ indices_sel' = DeixadasPorExcluir(linha, total) ]_vars

\* C27: of two cleaned apps the second alone has been selected, by an
\* inclusion that was confirmed or by excluding the first
C27_Witness ==
    /\ pcS = "retornou"
    /\ modoS = "interativo"
    /\ Len(df_apps.rows) = 2
    /\ indices_sel = {2}
    /\ appsSel.kind = "csv"
    /\ appsSel.rows = <<df_apps.rows[2]>>

\* ---------------------------------------------------------------- C29

\* the identifiers stored in apps_selecionados.csv
IdsSelecionados ==
    IF appsSel.kind = "csv"
    THEN { appsSel.rows[i].appId : i \in 1..Len(appsSel.rows) }
    ELSE {}

\* C29: after executar_selecao has returned, in any mode and after any
\* earlier cleaning runs and selections, every review stored in
\* reviews_selecionados.csv belongs to an app stored in apps_selecionados.csv
C29_ReviewsDaSelecao ==
    (pcS = "retornou" /\ reviewsSel.kind = "csv") =>
        \A i \in 1..Len(reviewsSel.rows) : reviewsSel.rows[i].appId \in IdsSelecionados

\* the same after a call that went through the prompt
InterativoCoerente ==
    (pcS = "retornou" /\ modoS = "interativo" /\ reviewsSel.kind = "csv") =>
        \A i \in 1..Len(reviewsSel.rows) : reviewsSel.rows[i].appId \in IdsSelecionados

====
